---- MODULE Spec2Model ----
(***************************************************************************)
(* Model of the AI gateway access proxy: the middleware chain of the app,  *)
(* the Bedrock provider router (alias resolution, request translation,     *)
(* signing, dual authentication, forwarding, response translation), the    *)
(* token router (create, lookup, refresh) and the pure functions they are  *)
(* built from.                                                             *)
(*                                                                         *)
(* Specifications.                                                         *)
(*  - Spec: requests to the Bedrock routes, handled one at a time.         *)
(*  - SpecConcurrent: two chat-completion requests interleaved.            *)
(*  - SpecTokens: requests to the token routes, handled one at a time.     *)
(*  - SpecTokensConcurrent: two token requests interleaved.                *)
(*  - SpecProviders: requests to the Bedrock and the OpenAI routes.        *)
(*  - SpecLive: chat-completion requests under fairness of the handler's   *)
(*    steps and of the relay.                                              *)
(*  - SpecFrame: provider and token requests in one sequence.              *)
(*  - SpecResolve, SpecConverse, SpecInference, SpecOpenAI: the pure       *)
(*    functions applied to inputs drawn from bounded sets.                 *)
(*                                                                         *)
(* Conventions.                                                            *)
(*  - A JavaScript string is a sequence of chunks (TLA+ strings).  In a    *)
(*    model identifier the character "." only ever occurs as a chunk of    *)
(*    its own, so that String.includes(".") is decided by scanning the     *)
(*    chunks; template literals and Array.join are concatenations.         *)
(*    Model strings hold no quote and no backslash (JSON escaping is not   *)
(*    modelled).                                                           *)
(*  - A JavaScript value is a tagged record (Str, Num, Bool, Undefined,    *)
(*    NullV, Obj, Arr, Native), so that truthiness, property lookup (own   *)
(*    and inherited) and string conversion are computed as the engine      *)
(*    does.                                                                *)
(*  - TEAM_INFO stores JSON texts, as the KV namespace does; a lookup      *)
(*    parses the text.                                                     *)
(***************************************************************************)
EXTENDS Integers, Sequences, FiniteSets, TLC

VARIABLES
    TEAM_INFO,  \* the KV namespace: API key -> stored TeamInfo (or NoTeam)
    req,        \* the inbound request being handled
    pc,         \* position of the request in the app (middleware chain, router)
    ctx,        \* Hono context variables: team, originalModel, model, requestBody
    stage,      \* stage of the Bedrock chat-completion handler
    loc,        \* the handler's locals
    outbound,   \* the outbound calls issued for the request, in order
    reply,      \* the relay's reply to the outbound call
    resp,       \* the response returned to the client
    now,        \* the clock read by the signer
    rid,        \* number of requests received so far
    env,        \* the worker's bindings (c.env)
    call,       \* harness for the pure functions: name, argument, result
    parked      \* the in-flight request that is suspended at an await, if any

vars == <<TEAM_INFO, req, pc, ctx, stage, loc, outbound, reply, resp, now, rid, env, call, parked>>

----------------------------------------------------------------------------
(* Bounds *)

\* longest model identifier, in chunks, that the resolver is applied to
MaxIdLen == 3
\* longest message list the translator is applied to
MaxMsgs == 2
\* number of requests one behaviour handles
MaxRequests == 2
\* last clock value
MaxClock == 1
\* largest number a client supplies as an option and the provider reports as a
\* token count
MaxTokens == 2

----------------------------------------------------------------------------
(* JavaScript values *)

Str(s) == [t |-> "string", s |-> s]
Num(n) == [t |-> "number", n |-> n]
Bool(b) == [t |-> "boolean", b |-> b]
Undefined == [t |-> "undefined"]
NullV == [t |-> "null"]
\* a plain object: its own properties, in insertion order, as <<key, value>> pairs
Obj(props) == [t |-> "object", props |-> props]
Arr(elems) == [t |-> "array", elems |-> elems]
\* a property inherited from Object.prototype (a native function or the prototype itself)
Native(name) == [t |-> "native", name |-> name]

\* ToBoolean
Truthy(v) ==
    CASE v.t = "string" -> v.s # << >>
      [] v.t = "number" -> v.n # 0
      [] v.t = "boolean" -> v.b
      [] v.t = "undefined" -> FALSE
      [] v.t = "null" -> FALSE
      [] OTHER -> TRUE

\* a || b
OrElse(a, b) == IF Truthy(a) THEN a ELSE b

\* the names every plain object inherits from Object.prototype
ObjectPrototypeProps ==
    { <<"constructor">>, <<"toString">>, <<"valueOf">>, <<"hasOwnProperty">>,
      <<"isPrototypeOf">>, <<"propertyIsEnumerable">>, <<"toLocaleString">>,
      <<"__proto__">> }

HasOwn(o, key) == \E i \in DOMAIN o.props : o.props[i][1] = key

OwnValue(o, key) ==
    LET i == CHOOSE j \in DOMAIN o.props :
                 /\ o.props[j][1] = key
                 /\ \A k \in DOMAIN o.props : o.props[k][1] = key => k <= j
    IN o.props[i][2]

\* o[key] on a plain object: own property, else the one inherited from
\* Object.prototype, else undefined
Get(o, key) ==
    IF HasOwn(o, key) THEN OwnValue(o, key)
    ELSE IF key \in ObjectPrototypeProps THEN Native(key)
    ELSE Undefined

\* v?.[key]: undefined on undefined and null; strings, numbers and arrays have none
\* of the properties the program reads
OptGet(v, key) == IF v.t = "object" THEN Get(v, key) ELSE Undefined

\* Object.keys(o)
ObjectKeys(o) == [i \in DOMAIN o.props |-> o.props[i][1]]

\* String(v), as a template literal converts it
StringOf(v) ==
    CASE v.t = "string" -> v.s
      [] v.t = "undefined" -> <<"undefined">>
      [] v.t = "null" -> <<"null">>
      [] v.t = "number" -> <<ToString(v.n)>>
      [] v.t = "boolean" -> <<IF v.b THEN "true" ELSE "false">>
      [] v.t = "native" ->
            IF v.name = <<"__proto__">> THEN <<"[object Object]">>
            ELSE <<"function ">>
                 \o (IF v.name = <<"constructor">> THEN <<"Object">> ELSE v.name)
                 \o <<"() { [native code] }">>
      [] OTHER -> <<"[object Object]">>

\* s.includes(x), x a single character
Includes(s, x) == \E i \in DOMAIN s : s[i] = x

\* keys.join(sep)
RECURSIVE Join(_, _)
Join(keys, sep) ==
    IF keys = << >> THEN << >>
    ELSE IF Len(keys) = 1 THEN keys[1]
    ELSE keys[1] \o sep \o Join(Tail(keys), sep)

\* part occurs in whole as a contiguous run of chunks
Occurs(part, whole) ==
    \E i \in 0 .. (Len(whole) - Len(part)) :
        \A j \in 1 .. Len(part) : whole[i + j] = part[j]

----------------------------------------------------------------------------
(* Model Alias Resolver *)

MODEL_MAPPING ==
    Obj(<< << <<"nova-pro">>,   Str(<<"amazon", ".", "nova-pro-v1:0">>) >>,
           << <<"nova-lite">>,  Str(<<"amazon", ".", "nova-lite-v1:0">>) >>,
           << <<"nova-micro">>, Str(<<"amazon", ".", "nova-micro-v1:0">>) >> >>)

\* resolveModelId(model), model a string
resolveModelId(model) ==
    IF Includes(model, ".") THEN Str(model)
    ELSE OrElse(Get(MODEL_MAPPING, model), NullV)

----------------------------------------------------------------------------
(* JSON texts: sequences of tokens.  A string literal is a quote token, the *)
(* string's chunks and a closing quote token; numbers are decimal tokens.   *)

\* a thrown exception, as the result of an operation that may throw
Throw == [t |-> "throw"]

Quote == "\""

\* the numbers a JSON text of the model can hold
NumberRange == 0 .. 9

IsNumberToken(tok) == \E n \in NumberRange : ToString(n) = tok

NumberOfToken(tok) == CHOOSE n \in NumberRange : ToString(n) = tok

Fail == [ok |-> FALSE]

\* the string literal starting at token i
ParseString(t, i) ==
    IF i > Len(t) \/ t[i] # Quote THEN Fail
    ELSE IF \A j \in (i + 1) .. Len(t) : t[j] # Quote THEN Fail
    ELSE LET j == CHOOSE k \in (i + 1) .. Len(t) :
                      /\ t[k] = Quote
                      /\ \A m \in (i + 1) .. (k - 1) : t[m] # Quote
         IN [ok |-> TRUE, val |-> Str(SubSeq(t, i + 1, j - 1)), next |-> j + 1]

RECURSIVE ParseValue(_, _), ParseMembers(_, _, _), ParseElements(_, _, _)

\* the JSON value starting at token i
ParseValue(t, i) ==
    IF i > Len(t) THEN Fail
    ELSE IF t[i] = "null" THEN [ok |-> TRUE, val |-> NullV, next |-> i + 1]
    ELSE IF t[i] \in {"true", "false"}
        THEN [ok |-> TRUE, val |-> Bool(t[i] = "true"), next |-> i + 1]
    ELSE IF t[i] = Quote THEN ParseString(t, i)
    ELSE IF IsNumberToken(t[i])
        THEN [ok |-> TRUE, val |-> Num(NumberOfToken(t[i])), next |-> i + 1]
    ELSE IF t[i] = "{"
        THEN IF i + 1 <= Len(t) /\ t[i + 1] = "}"
             THEN [ok |-> TRUE, val |-> Obj(<< >>), next |-> i + 2]
             ELSE ParseMembers(t, i + 1, << >>)
    ELSE IF t[i] = "["
        THEN IF i + 1 <= Len(t) /\ t[i + 1] = "]"
             THEN [ok |-> TRUE, val |-> Arr(<< >>), next |-> i + 2]
             ELSE ParseElements(t, i + 1, << >>)
    ELSE Fail

\* the members of an object, from token i, after the members in acc (the key
\* and the value are each parsed once and bound as values)
ParseMembers(t, i, acc) ==
    CHOOSE r \in
        { IF ~k.ok \/ k.next > Len(t) \/ t[k.next] # ":" THEN Fail
          ELSE CHOOSE s \in
                   { IF ~v.ok \/ v.next > Len(t) THEN Fail
                     ELSE CHOOSE q \in
                              { IF t[v.next] = "," THEN ParseMembers(t, v.next + 1, props)
                                ELSE IF t[v.next] = "}"
                                    THEN [ok |-> TRUE, val |-> Obj(props), next |-> v.next + 1]
                                ELSE Fail :
                                    props \in { Append(acc, <<k.val.s, v.val>>) } } : TRUE :
                         v \in { ParseValue(t, k.next + 1) } } : TRUE :
              k \in { ParseString(t, i) } } : TRUE

\* the elements of an array, from token i, after the elements in acc
ParseElements(t, i, acc) ==
    CHOOSE r \in
        { IF ~v.ok \/ v.next > Len(t) THEN Fail
          ELSE CHOOSE q \in
                   { IF t[v.next] = "," THEN ParseElements(t, v.next + 1, elems)
                     ELSE IF t[v.next] = "]"
                         THEN [ok |-> TRUE, val |-> Arr(elems), next |-> v.next + 1]
                     ELSE Fail :
                         elems \in { Append(acc, v.val) } } : TRUE :
              v \in { ParseValue(t, i) } } : TRUE

\* JSON.parse(text): the value, or Throw (SyntaxError)
JSONParse(t) ==
    CHOOSE x \in { IF r.ok /\ r.next = Len(t) + 1 THEN r.val ELSE Throw :
                       r \in { ParseValue(t, 1) } } : TRUE

RECURSIVE StringifyValue(_), StringifyMembers(_, _), StringifyElements(_)

\* the tokens of a value; undefined and functions have none on their own
StringifyValue(v) ==
    CASE v.t = "string" -> <<Quote>> \o v.s \o <<Quote>>
      [] v.t = "number" -> <<ToString(v.n)>>
      [] v.t = "boolean" -> <<IF v.b THEN "true" ELSE "false">>
      [] v.t = "null" -> <<"null">>
      [] v.t = "object" -> <<"{">> \o StringifyMembers(v.props, TRUE) \o <<"}">>
      [] v.t = "array" -> <<"[">> \o StringifyElements(v.elems) \o <<"]">>
      [] OTHER -> <<"null">>

\* an object's members: those whose value is undefined or a function are left out
StringifyMembers(props, first) ==
    IF props = << >> THEN << >>
    ELSE LET p == props[1] IN
         IF p[2].t \in {"undefined", "native"}
         THEN StringifyMembers(Tail(props), first)
         ELSE (IF first THEN << >> ELSE <<",">>)
              \o <<Quote>> \o p[1] \o <<Quote, ":">> \o StringifyValue(p[2])
              \o StringifyMembers(Tail(props), FALSE)

StringifyElements(elems) ==
    IF elems = << >> THEN << >>
    ELSE StringifyValue(elems[1])
         \o (IF Len(elems) > 1 THEN <<",">> ELSE << >>)
         \o StringifyElements(Tail(elems))

\* JSON.stringify(v)
JSONStringify(v) == StringifyValue(v)

----------------------------------------------------------------------------
(* Format Translator *)

\* mutant: the role is passed through instead of being collapsed to user/assistant
ConverseMessage_PassRole(msg) ==
    IF msg.t \in {"undefined", "null"} THEN Throw
    ELSE Obj(<< << <<"role">>, OptGet(msg, <<"role">>) >>,
                << <<"content">>,
                   Arr(<< Obj(<< << <<"text">>, OptGet(msg, <<"content">>) >> >>) >>) >> >>)

\* one element of messages.map(...): reading a property of undefined or null throws
ConverseMessage(msg) ==
    IF msg.t \in {"undefined", "null"} THEN Throw
    ELSE Obj(<< << <<"role">>,
                   IF OptGet(msg, <<"role">>) = Str(<<"assistant">>)
                   THEN Str(<<"assistant">>) ELSE Str(<<"user">>) >>,
                << <<"content">>,
                   Arr(<< Obj(<< << <<"text">>, OptGet(msg, <<"content">>) >> >>) >>) >> >>)

\* the optional inferenceConfig properties, in the order the code sets them
InferenceConfig(openaiRequest) ==
    LET max_tokens == Get(openaiRequest, <<"max_tokens">>)
        temperature == Get(openaiRequest, <<"temperature">>)
        top_p == Get(openaiRequest, <<"top_p">>)
        stop == Get(openaiRequest, <<"stop">>)
    IN (IF Truthy(max_tokens) THEN << << <<"maxTokens">>, max_tokens >> >> ELSE << >>)
       \o (IF temperature # Undefined THEN << << <<"temperature">>, temperature >> >> ELSE << >>)
       \o (IF top_p # Undefined THEN << << <<"topP">>, top_p >> >> ELSE << >>)
       \o (IF Truthy(stop) THEN << << <<"stopSequences">>, stop >> >> ELSE << >>)

\* convertToConverseFormat(openaiRequest): the Converse request, or Throw when
\* messages is not an array or holds an undefined or null element
convertToConverseFormat(openaiRequest) ==
    LET messages == Get(openaiRequest, <<"messages">>) IN
    IF messages.t # "array" THEN Throw
    ELSE LET converseMessages ==
                 [i \in DOMAIN messages.elems |-> ConverseMessage(messages.elems[i])]
             inferenceConfig == InferenceConfig(openaiRequest)
         IN IF \E i \in DOMAIN converseMessages : converseMessages[i] = Throw
            THEN Throw
            ELSE Obj(<< << <<"messages">>, Arr(converseMessages) >> >>
                     \o (IF Len(inferenceConfig) > 0
                         THEN << << <<"inferenceConfig">>, Obj(inferenceConfig) >> >>
                         ELSE << >>))

\* {text: s}
TextBlock(s) == Obj(<< << <<"text">>, Str(s) >> >>)

\* mutant: the last element is taken
First_Last(v) == IF v.t = "array" /\ v.elems # << >> THEN v.elems[Len(v.elems)] ELSE Undefined

\* content?.[0]: the first element of an array, undefined otherwise
First(v) == IF v.t = "array" /\ v.elems # << >> THEN v.elems[1] ELSE Undefined

\* mutant: the output tokens are left out of the sum
Plus_Left(a, b) == a

\* a + b on the values the usage fields hold
Plus(a, b) == IF a.t = "number" /\ b.t = "number" THEN Num(a.n + b.n) ELSE Undefined

\* convertToOpenAIFormat(converseResponse, model), with the random UUID and the
\* clock reading it draws; Throw when converseResponse is null (property of null)
convertToOpenAIFormat(converseResponse, model, uuid, created) ==
    IF converseResponse.t \in {"null", "undefined"} THEN Throw
    ELSE
    LET output == OptGet(converseResponse, <<"output">>)
        message == OptGet(output, <<"message">>)
        usage == OptGet(converseResponse, <<"usage">>)
        content == OrElse(OptGet(First(OptGet(message, <<"content">>)), <<"text">>),
                          Str(<< >>))
        inputTokens == OrElse(OptGet(usage, <<"inputTokens">>), Num(0))
        outputTokens == OrElse(OptGet(usage, <<"outputTokens">>), Num(0))
    IN Obj(<< << <<"id">>, Str(<<"chatcmpl-", uuid>>) >>,
              << <<"object">>, Str(<<"chat.completion">>) >>,
              << <<"created">>, Num(created) >>,
              << <<"model">>, model >>,
              << <<"choices">>,
                 Arr(<< Obj(<< << <<"index">>, Num(0) >>,
                               << <<"message">>,
                                  Obj(<< << <<"role">>, Str(<<"assistant">>) >>,
                                         << <<"content">>, content >> >>) >>,
                               << <<"finish_reason">>, Str(<<"stop">>) >> >>) >>) >>,
              << <<"usage">>,
                 Obj(<< << <<"prompt_tokens">>, inputTokens >>,
                        << <<"completion_tokens">>, outputTokens >>,
                        << <<"total_tokens">>, Plus(inputTokens, outputTokens) >> >>) >> >>)

----------------------------------------------------------------------------
(* HTTP headers: a function from lower-cased names to values *)

LowerCase(name) ==
    CASE name = "Authorization" -> "authorization"
      [] name = "Content-Type" -> "content-type"
      [] name = "X-Amz-Date" -> "x-amz-date"
      [] name = "Host" -> "host"
      [] OTHER -> name

NoHeaders == [n \in {} |-> << >>]

\* headers.set(name, value)
HeadersSet(h, name, value) ==
    [n \in DOMAIN h \cup {LowerCase(name)} |->
        IF n = LowerCase(name) THEN value ELSE h[n]]

\* headers.delete(name)
HeadersDelete(h, name) == [n \in DOMAIN h \ {LowerCase(name)} |-> h[n]]

\* headers.get(name): the value, or (absent) the empty sequence
HeadersHas(h, name) == LowerCase(name) \in DOMAIN h

----------------------------------------------------------------------------
(* Request Signer: AwsClient.sign of aws4fetch, as a symbolic term.  The     *)
(* signature is a keyed hash of the method, the URL, the body and the date. *)

Signature(secretAccessKey, method, url, body, date) ==
    <<"hmac(", "key:">> \o secretAccessKey \o <<",", method, ",">> \o url
        \o <<",">> \o body \o <<",">> \o date \o <<")">>

\* awsClient.sign(url, {method, headers, body}): the signed request's headers
Sign(creds, url, method, headers, body, date) ==
    HeadersSet(
        HeadersSet(headers, "X-Amz-Date", date),
        "Authorization",
        <<"AWS4-HMAC-SHA256 Credential=">> \o creds.accessKeyId \o <<"/">> \o date
            \o <<"/">> \o creds.region \o <<"/", creds.service, "/aws4_request, ",
                   "SignedHeaders=content-type;host;x-amz-date, Signature=">>
            \o Signature(creds.secretAccessKey, method, url, body, date))

\* the timestamp the signer reads
DateString(t) == <<"T", ToString(t)>>

----------------------------------------------------------------------------
(* The worker: requests, bindings, responses *)

\* what kv.get gives for a key that is not stored
NoTeam == [t |-> "null"]

\* a TeamInfo created before the deployment; TEAM_INFO stores its JSON text
TeamInfo(apiKey, teamId, name, limited) ==
    Obj(<< << <<"apiKey">>, Str(apiKey) >>,
           << <<"teamId">>, Str(teamId) >>,
           << <<"createdAt">>, Str(<<"2025-01-01T00:00:00.000Z">>) >>,
           << <<"name">>, Str(name) >>,
           << <<"limited">>, Bool(limited) >> >>)

\* the keys a client may present
ApiKeys == { <<"sk_1">>, <<"sk_unknown">> }

\* the bindings of a deployment: AWS_REGION may be unset
Bindings ==
    { [AI_GATEWAY_URL |-> <<"https://gateway.ai.cloudflare.com/v1/acct/gw">>,
       AI_GATEWAY_TOKEN |-> <<"cf-token">>,
       AWS_ACCESS_KEY_ID |-> <<"AKIA1">>,
       AWS_SECRET_ACCESS_KEY |-> <<"aws-secret">>,
       AWS_REGION |-> r] : r \in {Undefined, Str(<<"eu-west-1">>)} }

\* c.json(body, status) and c.text(text, status)
JsonResponse(body, status) == [sent |-> TRUE, status |-> status, kind |-> "json", body |-> body]
TextResponse(text, status) == [sent |-> TRUE, status |-> status, kind |-> "text", body |-> Str(text)]
NoResponse == [sent |-> FALSE]

\* {error: {message, type}}
ErrorBody(message, type) ==
    Obj(<< << <<"error">>, Obj(<< << <<"message">>, Str(message) >>,
                                  << <<"type">>, Str(<<type>>) >> >>) >> >>)

\* app.onError for an error that is not an HTTPException
onError == JsonResponse(Obj(<< << <<"error">>, Str(<<"Internal Server Error">>) >> >>), 500)

\* c.req.path, from the path's segments
RECURSIVE PathString(_)
PathString(path) ==
    IF path = << >> THEN << >>
    ELSE <<"/", path[1]>> \o PathString(Tail(path))

ChatCompletionsPath == <<"bedrock", "chat", "completions">>

\* the paths under the Bedrock prefix that clients request
BedrockPaths ==
    { ChatCompletionsPath, <<"bedrock", "v1", "chat", "completions">>, <<"bedrock", "models">> }

\* the model identifiers clients send
ClientModels ==
    { <<"nova-micro">>, <<"amazon", ".", "nova-micro-v1:0">>, <<"unknown-model">>,
      <<"constructor">> }

Message(role, content) ==
    Obj(<< << <<"role">>, Str(<<role>>) >>, << <<"content">>, Str(<<content>>) >> >>)

\* the message lists clients send
ClientMessages ==
    { << Message("user", "What is Cloudflare?") >>,
      << Message("system", "Be brief"), Message("assistant", "ok") >> }

\* the bodies clients send: chat requests (with or without model and messages),
\* a JSON null, and a text that is not JSON
ClientBodies ==
    { JSONStringify(Obj(<< << <<"model">>, Str(m) >>, << <<"messages">>, Arr(ms) >> >>)) :
          m \in ClientModels, ms \in ClientMessages }
    \cup { JSONStringify(Obj(<< << <<"model">>, Str(<<"nova-micro">>) >> >>)),
           JSONStringify(Obj(<< << <<"messages">>,
                                   Arr(<< Message("user", "What is Cloudflare?") >>) >> >>)),
           <<"null">>,
           <<"model=nova-micro">> }

\* the Authorization headers clients send: none, a bearer key, a bearer scheme
\* without key, another scheme
ClientHeaders ==
    { NoHeaders } \cup { HeadersSet(NoHeaders, "Authorization", <<"Bearer ">> \o k) : k \in ApiKeys }
    \cup { HeadersSet(NoHeaders, "Authorization", <<"Bearer ">>),
           HeadersSet(NoHeaders, "Authorization", <<"Basic ", "sk_1">>) }

\* the statuses the relay answers with
RelayStatuses == { 200, 201, 400, 403, 500 }

\* the bodies the relay answers with
RelayBodies ==
    { JSONStringify(Obj(<< << <<"output">>, Obj(<< << <<"message">>, Obj(<< << <<"content">>,
          Arr(<< Obj(<< << <<"text">>, Str(<<"hello">>) >> >>) >>) >> >>) >> >>) >>,
                           << <<"usage">>, Obj(<< << <<"inputTokens">>, Num(5) >>,
                                                  << <<"outputTokens">>, Num(3) >> >>) >> >>)),
      JSONStringify(Obj(<< >>)),
      JSONStringify(Obj(<< << <<"message">>, Str(<<"access denied">>) >> >>)),
      JSONStringify(Obj(<< << <<"Message">>, Str(<<"Forbidden">>) >> >>)),
      JSONStringify(Obj(<< << <<"message">>, Str(<<"access denied">>) >>,
                           << <<"Message">>, Str(<<"Forbidden">>) >> >>)),
      JSONStringify(Obj(<< << <<"message">>, Str(<< >>) >>,
                           << <<"Message">>, Str(<<"Forbidden">>) >> >>)),
      JSONStringify(Obj(<< << <<"message">>, Str(<< >>) >> >>)),
      <<"null">>,
      <<"upstream connect error">> }

UUIDs == { "uuid-a", "uuid-b" }

NoReply == [kind |-> "none"]

NoLocals ==
    [region |-> << >>, modelId |-> Undefined, body |-> << >>, bedrockUrl |-> << >>,
     signedHeaders |-> NoHeaders, gatewayUrl |-> << >>, finalHeaders |-> NoHeaders,
     openaiResponse |-> Undefined,
     existing |-> NoTeam, newApiKey |-> << >>, updatedTeamInfo |-> NoTeam]

NoContext ==
    [team |-> NoTeam, originalModel |-> Undefined, model |-> Undefined,
     requestBody |-> Undefined, aiFetch |-> NoHeaders]

NoRequest == [method |-> "", path |-> << >>, headers |-> NoHeaders, body |-> << >>]

NoCall == [fn |-> "", arg |-> Undefined, ret |-> Undefined, done |-> FALSE]

NoParked == [pc |-> "none"]

\* the worker after deployment, before any request
InitWorker ==
    /\ TEAM_INFO = [k \in { <<"sk_1">> } |->
                        JSONStringify(TeamInfo(k, <<"team_123">>, <<"Acme Corp">>, FALSE))]
    /\ parked = NoParked
    /\ env \in Bindings
    /\ req = NoRequest
    /\ pc = "idle"
    /\ ctx = NoContext
    /\ stage = "None"
    /\ loc = NoLocals
    /\ outbound = << >>
    /\ reply = NoReply
    /\ resp = NoResponse
    /\ now = 0
    /\ rid = 0

Init ==
    /\ InitWorker
    /\ call = NoCall

----------------------------------------------------------------------------
(* A request arrives *)

\* the client sends a request; a GET carries no body
Arrive ==
    /\ pc \in {"idle", "done"}
    /\ rid < MaxRequests
    /\ \E method \in {"POST", "GET"}, path \in BedrockPaths, headers \in ClientHeaders,
          body \in ClientBodies \cup { << >> } :
          /\ (method = "GET") <=> (body = << >>)
          /\ req' = [method |-> method, path |-> path, headers |-> headers, body |-> body]
    /\ rid' = rid + 1
    /\ pc' = "apiKey"
    /\ ctx' = NoContext
    /\ stage' = "None"
    /\ loc' = NoLocals
    /\ outbound' = << >>
    /\ reply' = NoReply
    /\ resp' = NoResponse
    /\ UNCHANGED <<TEAM_INFO, now, env, call, parked>>

\* the clock advances
Tick ==
    /\ now < MaxClock
    /\ now' = now + 1
    /\ UNCHANGED <<TEAM_INFO, req, pc, ctx, stage, loc, outbound, reply, resp, rid, env, call, parked>>

----------------------------------------------------------------------------
(* Middleware *)

\* getApiKey(request): the key after "Bearer ", or null
getApiKey(headers) ==
    IF HeadersHas(headers, "Authorization")
       /\ headers["authorization"] # << >>
       /\ headers["authorization"][1] = "Bearer "
    THEN Str(Tail(headers["authorization"]))
    ELSE NullV

\* mutant: a key that is not stored is given an anonymous team
getTeamInfo_Anonymous(apiKey, kv) ==
    IF apiKey \in DOMAIN kv THEN JSONParse(kv[apiKey])
    ELSE TeamInfo(apiKey, <<"anonymous">>, <<"Anonymous">>, TRUE)

\* getTeamInfo(apiKey, kv): kv.get(apiKey, "json")
getTeamInfo(apiKey, kv) == IF apiKey \in DOMAIN kv THEN JSONParse(kv[apiKey]) ELSE NoTeam

\* mutant: the middleware writes the team's record back on every use
ApiKeyMw_Touch ==
    /\ pc = "apiKey"
    /\ LET apiKey == getApiKey(req.headers) IN
       IF ~Truthy(apiKey)
       THEN /\ resp' = TextResponse(<<"Unauthorized">>, 401)
            /\ pc' = "done"
            /\ ctx' = ctx
            /\ TEAM_INFO' = TEAM_INFO
       ELSE LET team == getTeamInfo(apiKey.s, TEAM_INFO) IN
            IF team = NoTeam
            THEN /\ resp' = TextResponse(<<"Unauthorized">>, 401)
                 /\ pc' = "done"
                 /\ ctx' = ctx
                 /\ TEAM_INFO' = TEAM_INFO
            ELSE /\ ctx' = [ctx EXCEPT !.team = team]
                 /\ pc' = "resolveModel"
                 /\ resp' = resp
                 /\ TEAM_INFO' = [TEAM_INFO EXCEPT ![apiKey.s] =
                                      JSONStringify(Obj(Append(team.props,
                                                               << <<"lastUsed">>, Num(now) >>)))]
    /\ UNCHANGED <<req, stage, loc, outbound, reply, now, rid, env, call, parked>>

\* the apiKey middleware
ApiKeyMw ==
    /\ pc = "apiKey"
    /\ LET apiKey == getApiKey(req.headers) IN
       IF ~Truthy(apiKey)
       THEN /\ resp' = TextResponse(<<"Unauthorized">>, 401)
            /\ pc' = "done"
            /\ ctx' = ctx
       ELSE LET team == getTeamInfo(apiKey.s, TEAM_INFO) IN
            IF team = NoTeam
            THEN /\ resp' = TextResponse(<<"Unauthorized">>, 401)
                 /\ pc' = "done"
                 /\ ctx' = ctx
            ELSE /\ ctx' = [ctx EXCEPT !.team = team]
                 /\ pc' = "resolveModel"
                 /\ resp' = resp
    /\ UNCHANGED <<TEAM_INFO, req, stage, loc, outbound, reply, now, rid, env, call, parked>>

\* {...v}: the own properties of an object; a number has none (the indexed
\* properties of strings and arrays are not modelled)
Spread(v) == IF v.t = "object" THEN v ELSE Obj(<< >>)

\* {...o, [key]: v}
SetProp(o, key, v) ==
    IF HasOwn(o, key)
    THEN Obj([i \in DOMAIN o.props |->
                 IF o.props[i][1] = key THEN <<key, v>> ELSE o.props[i]])
    ELSE Obj(Append(o.props, <<key, v>>))

\* the resolveModel middleware: c.req.json() throws on a body that is not JSON,
\* and reading .model of null throws
ResolveModelMw ==
    /\ pc = "resolveModel"
    /\ LET body == JSONParse(req.body) IN
       IF body = Throw \/ body.t = "null"
       THEN /\ resp' = onError
            /\ pc' = "done"
            /\ ctx' = ctx
       ELSE LET originalModel == OptGet(body, <<"model">>)
                resolvedModel == originalModel
            IN /\ ctx' = [ctx EXCEPT !.originalModel = originalModel,
                                     !.model = resolvedModel,
                                     !.requestBody = SetProp(Spread(body), <<"model">>, resolvedModel)]
               /\ pc' = "logger"
               /\ resp' = resp
    /\ UNCHANGED <<TEAM_INFO, req, stage, loc, outbound, reply, now, rid, env, call, parked>>

\* the logger middleware: it only logs
LoggerMw ==
    /\ pc = "logger"
    /\ pc' = "aiFetch"
    /\ UNCHANGED <<TEAM_INFO, req, ctx, stage, loc, outbound, reply, resp, now, rid, env, call, parked>>

\* mutant: the inbound headers are forwarded with the client's Authorization
AiFetchMw_KeepAuthorization ==
    /\ pc = "aiFetch"
    /\ IF ctx.team = NoTeam
       THEN /\ resp' = TextResponse(<<"Unauthorized">>, 401)
            /\ pc' = "done"
            /\ ctx' = ctx
       ELSE LET forwardHeaders ==
                    HeadersSet(
                        HeadersSet(HeadersDelete(req.headers, "host"),
                                   "host", <<"gateway.ai.cloudflare.com">>),
                        "cf-aig-metadata",
                        JSONStringify(Obj(<< << <<"team_id">>, Get(ctx.team, <<"teamId">>) >>,
                                             << <<"model">>, ctx.model >>,
                                             << <<"originalModel">>, ctx.originalModel >> >>)))
            IN /\ ctx' = [ctx EXCEPT !.aiFetch = forwardHeaders]
               /\ pc' = "route"
               /\ resp' = resp
    /\ UNCHANGED <<TEAM_INFO, req, stage, loc, outbound, reply, now, rid, env, call, parked>>

\* the aiFetch middleware: the headers its fetch wrapper will send
AiFetchMw ==
    /\ pc = "aiFetch"
    /\ IF ctx.team = NoTeam
       THEN /\ resp' = TextResponse(<<"Unauthorized">>, 401)
            /\ pc' = "done"
            /\ ctx' = ctx
       ELSE LET forwardHeaders ==
                    HeadersSet(
                        HeadersSet(
                            HeadersDelete(
                                HeadersSet(req.headers, "Authorization",
                                           <<"Bearer ">> \o env.AI_GATEWAY_TOKEN),
                                "host"),
                            "host", <<"gateway.ai.cloudflare.com">>),
                        "cf-aig-metadata",
                        JSONStringify(Obj(<< << <<"team_id">>, Get(ctx.team, <<"teamId">>) >>,
                                             << <<"model">>, ctx.model >>,
                                             << <<"originalModel">>, ctx.originalModel >> >>)))
            IN /\ ctx' = [ctx EXCEPT !.aiFetch = forwardHeaders]
               /\ pc' = "route"
               /\ resp' = resp
    /\ UNCHANGED <<TEAM_INFO, req, stage, loc, outbound, reply, now, rid, env, call, parked>>

----------------------------------------------------------------------------
(* Bedrock router *)

\* the request is for bedrockRouter.post("/chat/completions")
IsChatCompletion(r) == r.method = "POST" /\ r.path = ChatCompletionsPath

\* the request is under app.route("/bedrock", bedrockRouter)
UnderBedrock(r) == r.path # << >> /\ r.path[1] = "bedrock"

\* the chat-completion handler is entered: region and context are read
EnterChatCompletions ==
    /\ pc = "route"
    /\ IsChatCompletion(req)
    /\ pc' = "handler"
    /\ stage' = "Received"
    /\ loc' = [loc EXCEPT !.region = OrElse(env.AWS_REGION, Str(<<"us-east-1">>)).s]
    /\ UNCHANGED <<TEAM_INFO, req, ctx, outbound, reply, resp, now, rid, env, call, parked>>

\* bedrockRouter.all("*"): any other request under the prefix
CatchAll ==
    /\ pc = "route"
    /\ UnderBedrock(req)
    /\ ~IsChatCompletion(req)
    /\ resp' = JsonResponse(
                   ErrorBody(<<"The endpoint ">> \o PathString(req.path)
                                 \o <<" is not supported for Bedrock. Only /chat/completions is currently available.">>,
                             "invalid_request_error"),
                   501)
    /\ pc' = "done"
    /\ UNCHANGED <<TEAM_INFO, req, ctx, stage, loc, outbound, reply, now, rid, env, call, parked>>

\* the handler throws: app.onError answers
Throws ==
    /\ stage' = "Error"
    /\ resp' = onError
    /\ pc' = "done"

\* resolve the model name to a Bedrock model id, or answer 400;
\* model.includes throws when the body had no model
ResolveAlias ==
    /\ pc = "handler"
    /\ stage = "Received"
    /\ IF ctx.model.t # "string"
       THEN Throws /\ loc' = loc
       ELSE LET modelId == resolveModelId(ctx.model.s) IN
            IF ~Truthy(modelId)
            THEN /\ resp' = JsonResponse(
                                ErrorBody(<<"Unknown model: ">> \o StringOf(ctx.model)
                                              \o <<". Use a Bedrock model ID or one of: ">>
                                              \o Join(ObjectKeys(MODEL_MAPPING), <<", ">>),
                                          "invalid_request_error"),
                                400)
                 /\ stage' = "Error"
                 /\ pc' = "done"
                 /\ loc' = loc
            ELSE /\ loc' = [loc EXCEPT !.modelId = modelId]
                 /\ stage' = "AliasResolved"
                 /\ pc' = pc
                 /\ resp' = resp
    /\ UNCHANGED <<TEAM_INFO, req, ctx, outbound, reply, now, rid, env, call, parked>>

\* convert to the Converse format and serialise
TranslateRequest ==
    /\ pc = "handler"
    /\ stage = "AliasResolved"
    /\ LET converseBody == convertToConverseFormat(ctx.requestBody) IN
       IF converseBody = Throw
       THEN Throws /\ loc' = loc
       ELSE /\ loc' = [loc EXCEPT !.body = JSONStringify(converseBody)]
            /\ stage' = "RequestTranslated"
            /\ pc' = pc
            /\ resp' = resp
    /\ UNCHANGED <<TEAM_INFO, req, ctx, outbound, reply, now, rid, env, call, parked>>

\* mutant: the client's request body is signed, not the translated one
SignRequest_RequestBody ==
    /\ pc = "handler"
    /\ stage = "RequestTranslated"
    /\ LET bedrockUrl == <<"https://bedrock-runtime.">> \o loc.region
                             \o <<".amazonaws.com/model/">> \o StringOf(loc.modelId)
                             \o <<"/converse">>
           awsClient == [accessKeyId |-> env.AWS_ACCESS_KEY_ID,
                         secretAccessKey |-> env.AWS_SECRET_ACCESS_KEY,
                         region |-> loc.region,
                         service |-> "bedrock"]
       IN loc' = [loc EXCEPT
                     !.bedrockUrl = bedrockUrl,
                     !.signedHeaders =
                         Sign(awsClient, bedrockUrl, "POST",
                              HeadersSet(NoHeaders, "Content-Type", <<"application/json">>),
                              JSONStringify(ctx.requestBody), DateString(now))]
    /\ stage' = "Signed"
    /\ UNCHANGED <<TEAM_INFO, req, pc, ctx, outbound, reply, resp, now, rid, env, call, parked>>

\* sign the request against the direct Bedrock URL
SignRequest ==
    /\ pc = "handler"
    /\ stage = "RequestTranslated"
    /\ LET bedrockUrl == <<"https://bedrock-runtime.">> \o loc.region
                             \o <<".amazonaws.com/model/">> \o StringOf(loc.modelId)
                             \o <<"/converse">>
           awsClient == [accessKeyId |-> env.AWS_ACCESS_KEY_ID,
                         secretAccessKey |-> env.AWS_SECRET_ACCESS_KEY,
                         region |-> loc.region,
                         service |-> "bedrock"]
       IN loc' = [loc EXCEPT
                     !.bedrockUrl = bedrockUrl,
                     !.signedHeaders =
                         Sign(awsClient, bedrockUrl, "POST",
                              HeadersSet(NoHeaders, "Content-Type", <<"application/json">>),
                              loc.body, DateString(now))]
    /\ stage' = "Signed"
    /\ UNCHANGED <<TEAM_INFO, req, pc, ctx, outbound, reply, resp, now, rid, env, call, parked>>

\* mutant: the relay's bearer token is set as the Authorization header
ComposeHeaders_Overwrite(signedHeaders, token) ==
    HeadersSet(signedHeaders, "Authorization", <<"Bearer ">> \o token)

\* finalHeaders: the signed headers plus the relay's bearer header
ComposeHeaders(signedHeaders, token) ==
    HeadersSet(signedHeaders, "cf-aig-authorization", <<"Bearer ">> \o token)

\* build the relay URL and the final headers
ComposeAuth ==
    /\ pc = "handler"
    /\ stage = "Signed"
    /\ loc' = [loc EXCEPT
                  !.gatewayUrl = env.AI_GATEWAY_URL \o <<"/aws-bedrock/bedrock-runtime/">>
                                     \o loc.region \o <<"/model/">> \o StringOf(loc.modelId)
                                     \o <<"/converse">>,
                  !.finalHeaders = ComposeHeaders(loc.signedHeaders, env.AI_GATEWAY_TOKEN)]
    /\ stage' = "AuthComposed"
    /\ UNCHANGED <<TEAM_INFO, req, pc, ctx, outbound, reply, resp, now, rid, env, call, parked>>

\* mutant: the translated request is forwarded before it is signed
Forward_Unsigned ==
    /\ pc = "handler"
    /\ stage = "RequestTranslated"
    /\ outbound' = Append(outbound, [url |-> loc.gatewayUrl, method |-> "POST",
                                     headers |-> loc.finalHeaders, body |-> loc.body])
    /\ stage' = "Forwarded"
    /\ UNCHANGED <<TEAM_INFO, req, pc, ctx, loc, reply, resp, now, rid, env, call, parked>>

\* fetch(gatewayUrl, ...): the call leaves, the handler awaits the reply
Forward ==
    /\ pc = "handler"
    /\ stage = "AuthComposed"
    /\ outbound' = Append(outbound, [url |-> loc.gatewayUrl, method |-> "POST",
                                     headers |-> loc.finalHeaders, body |-> loc.body])
    /\ stage' = "Forwarded"
    /\ UNCHANGED <<TEAM_INFO, req, pc, ctx, loc, reply, resp, now, rid, env, call, parked>>

\* the relay answers the call
RelayReplies ==
    /\ pc = "handler"
    /\ stage = "Forwarded"
    /\ reply = NoReply
    /\ \E status \in RelayStatuses, body \in RelayBodies :
          reply' = [kind |-> "response", status |-> status, body |-> body]
    /\ UNCHANGED <<TEAM_INFO, req, pc, ctx, stage, loc, outbound, resp, now, rid, env, call, parked>>

\* the call fails without a reply: fetch rejects
RelayFails ==
    /\ pc = "handler"
    /\ stage = "Forwarded"
    /\ reply = NoReply
    /\ reply' = [kind |-> "failure"]
    /\ UNCHANGED <<TEAM_INFO, req, pc, ctx, stage, loc, outbound, resp, now, rid, env, call, parked>>

\* response.ok
Ok(status) == 200 <= status /\ status <= 299

\* mutant: Message is preferred to message
ErrorMessage_MessageFirst(errorText) ==
    LET errorJson == JSONParse(errorText) IN
    IF errorJson = Throw \/ errorJson.t \in {"null", "undefined"}
    THEN errorText
    ELSE StringOf(OrElse(OptGet(errorJson, <<"Message">>),
                         OrElse(OptGet(errorJson, <<"message">>), Str(errorText))))

\* the message extracted from the body of a failed reply
ErrorMessage(errorText) ==
    LET errorJson == JSONParse(errorText) IN
    IF errorJson = Throw \/ errorJson.t \in {"null", "undefined"}
    THEN errorText
    ELSE StringOf(OrElse(OptGet(errorJson, <<"message">>),
                         OrElse(OptGet(errorJson, <<"Message">>), Str(errorText))))

\* mutant: the upstream status is masked as 500
UpstreamError_Masked(status, errorText) ==
    JsonResponse(ErrorBody(<<"Bedrock API error: ">> \o ErrorMessage(errorText), "api_error"),
                 500)

\* the response answering a reply that is not ok
UpstreamError(status, errorText) ==
    JsonResponse(ErrorBody(<<"Bedrock API error: ">> \o ErrorMessage(errorText), "api_error"),
                 status)

\* mutant: the resolved Bedrock model id is echoed
EchoedModel_Resolved(context, locals) == Str(StringOf(locals.modelId))

\* the model the response names: originalModel, so the client sees what it requested
EchoedModel(context, locals) == context.originalModel

\* mutant: a rejected fetch is never handled
HandleReply_Unsettled ==
    /\ pc = "handler"
    /\ stage = "Forwarded"
    /\ reply # NoReply
    /\ reply.kind = "response"
    /\ IF ~Ok(reply.status)
       THEN /\ resp' = UpstreamError(reply.status, reply.body)
            /\ stage' = "Error"
            /\ pc' = "done"
            /\ loc' = loc
       ELSE \E uuid \in UUIDs, converseResponse \in { JSONParse(reply.body) } :
            \E openaiResponse \in
                    { IF converseResponse = Throw THEN Throw
                      ELSE convertToOpenAIFormat(converseResponse, EchoedModel(ctx, loc),
                                                 uuid, now) } :
               IF openaiResponse = Throw
               THEN Throws /\ loc' = loc
               ELSE /\ loc' = [loc EXCEPT !.openaiResponse = openaiResponse]
                    /\ stage' = "ResponseTranslated"
                    /\ pc' = pc
                    /\ resp' = resp
    /\ UNCHANGED <<TEAM_INFO, req, ctx, outbound, reply, now, rid, env, call, parked>>

\* the awaited fetch settles: a rejection throws, a failure status is passed
\* through, a success is parsed and converted
HandleReply ==
    /\ pc = "handler"
    /\ stage = "Forwarded"
    /\ reply # NoReply
    /\ IF reply.kind = "failure"
       THEN Throws /\ loc' = loc
       ELSE IF ~Ok(reply.status)
       THEN /\ resp' = UpstreamError(reply.status, reply.body)
            /\ stage' = "Error"
            /\ pc' = "done"
            /\ loc' = loc
       ELSE \E uuid \in UUIDs, converseResponse \in { JSONParse(reply.body) } :
            \E openaiResponse \in
                    { IF converseResponse = Throw THEN Throw
                      ELSE convertToOpenAIFormat(converseResponse, EchoedModel(ctx, loc),
                                                 uuid, now) } :
               IF openaiResponse = Throw
               THEN Throws /\ loc' = loc
               ELSE /\ loc' = [loc EXCEPT !.openaiResponse = openaiResponse]
                    /\ stage' = "ResponseTranslated"
                    /\ pc' = pc
                    /\ resp' = resp
    /\ UNCHANGED <<TEAM_INFO, req, ctx, outbound, reply, now, rid, env, call, parked>>

\* return c.json(openaiResponse)
Complete ==
    /\ pc = "handler"
    /\ stage = "ResponseTranslated"
    /\ resp' = JsonResponse(loc.openaiResponse, 200)
    /\ stage' = "Completed"
    /\ pc' = "done"
    /\ UNCHANGED <<TEAM_INFO, req, ctx, loc, outbound, reply, now, rid, env, call, parked>>

----------------------------------------------------------------------------
(* Token router *)

\* except(["/tokens"], mw): the middleware is skipped for the path /tokens itself
Excepted(path) == path = <<"tokens">>

\* generateApiKey(): "sk_" and 32 random bytes; no two requests draw the same
\* bytes, so a request's number names the key it generates
generateApiKey(id) == <<"sk_gen" \o ToString(id)>>

\* new Date().toISOString()
ISOString(t) == <<"2026-01-01T00:00:0" \o ToString(t) \o ".000Z">>

\* kv.put(key, value) and kv.delete(key)
KvPut(kv, key, value) == [k \in DOMAIN kv \cup {key} |-> IF k = key THEN value ELSE kv[k]]
KvDelete(kv, key) == [k \in DOMAIN kv \ {key} |-> kv[k]]

\* the keys clients name in paths and headers
TokenKeys == { "sk_1", "sk_unknown" } \cup { generateApiKey(i)[1] : i \in 1 .. MaxRequests }

\* create, lookup and refresh, and a provider route
TokenRoutes ==
    { <<"POST", <<"tokens">> >>, <<"POST", <<"bedrock", "models">> >> }
    \cup { <<"GET", <<"tokens", k>> >> : k \in TokenKeys }
    \cup { <<"POST", <<"tokens", k, "refresh">> >> : k \in TokenKeys }

\* the bodies of token requests: none, an empty object, a chat request, a
\* CreateTokenRequest with and without limited, one without teamId
TokenBodies ==
    { << >>,
      JSONStringify(Obj(<< >>)),
      JSONStringify(Obj(<< << <<"model">>, Str(<<"nova-pro">>) >> >>)),
      JSONStringify(Obj(<< << <<"teamId">>, Str(<<"team_456">>) >>,
                           << <<"name">>, Str(<<"Globex">>) >> >>)),
      JSONStringify(Obj(<< << <<"teamId">>, Str(<<"team_456">>) >>,
                           << <<"name">>, Str(<<"Globex">>) >>,
                           << <<"limited">>, Bool(TRUE) >> >>)),
      JSONStringify(Obj(<< << <<"name">>, Str(<<"Globex">>) >> >>)) }

TokenHeaders ==
    { NoHeaders } \cup { HeadersSet(NoHeaders, "Authorization", <<"Bearer ", k>>) : k \in TokenKeys }

\* a request to the token routes arrives; the middleware chain is entered unless
\* the path is excepted
ArriveTokens ==
    /\ pc \in {"idle", "done"}
    /\ rid < MaxRequests
    /\ \E route \in TokenRoutes, headers \in TokenHeaders, body \in TokenBodies :
          /\ req' = [method |-> route[1], path |-> route[2], headers |-> headers,
                     body |-> body, id |-> rid + 1]
          /\ pc' = IF Excepted(route[2]) THEN "route" ELSE "apiKey"
    /\ rid' = rid + 1
    /\ ctx' = NoContext
    /\ stage' = "None"
    /\ loc' = NoLocals
    /\ outbound' = << >>
    /\ reply' = NoReply
    /\ resp' = NoResponse
    /\ UNCHANGED <<TEAM_INFO, now, env, call, parked>>

IsCreate(r) == r.method = "POST" /\ r.path = <<"tokens">>

IsLookup(r) == r.method = "GET" /\ Len(r.path) = 2 /\ r.path[1] = "tokens"

IsRefresh(r) ==
    r.method = "POST" /\ Len(r.path) = 3 /\ r.path[1] = "tokens" /\ r.path[3] = "refresh"

\* c.req.param("apiKey")
ParamApiKey(r) == <<r.path[2]>>

\* tokenRouter.post("/"): create a key for a team
TokenCreate ==
    /\ pc = "route"
    /\ IsCreate(req)
    /\ LET body == JSONParse(req.body) IN
       IF body = Throw \/ body.t = "null"
       THEN /\ resp' = onError
            /\ TEAM_INFO' = TEAM_INFO
       ELSE IF ~Truthy(OptGet(body, <<"teamId">>))
       THEN /\ resp' = JsonResponse(Obj(<< << <<"error">>, Str(<<"teamId is required">>) >> >>), 400)
            /\ TEAM_INFO' = TEAM_INFO
       ELSE LET apiKey == generateApiKey(req.id)
                teamInfo ==
                    Obj(<< << <<"apiKey">>, Str(apiKey) >>,
                           << <<"teamId">>, OptGet(body, <<"teamId">>) >>,
                           << <<"createdAt">>, Str(ISOString(now)) >>,
                           << <<"name">>, OptGet(body, <<"name">>) >>,
                           << <<"limited">>, OrElse(OptGet(body, <<"limited">>), Bool(FALSE)) >> >>)
            IN /\ TEAM_INFO' = KvPut(TEAM_INFO, apiKey, JSONStringify(teamInfo))
               /\ resp' = JsonResponse(teamInfo, 201)
    /\ pc' = "done"
    /\ UNCHANGED <<req, ctx, stage, loc, outbound, reply, now, rid, env, call, parked>>

\* tokenRouter.get("/:apiKey"): the team info stored under a key
TokenGet ==
    /\ pc = "route"
    /\ IsLookup(req)
    /\ LET teamInfo == getTeamInfo(ParamApiKey(req), TEAM_INFO) IN
       resp' = IF ~Truthy(teamInfo)
               THEN JsonResponse(Obj(<< << <<"error">>, Str(<<"Token not found">>) >> >>), 404)
               ELSE JsonResponse(teamInfo, 200)
    /\ pc' = "done"
    /\ UNCHANGED <<TEAM_INFO, req, ctx, stage, loc, outbound, reply, now, rid, env, call, parked>>

\* tokenRouter.post("/:apiKey/refresh"), up to the await of the delete: read the
\* record, answer 404 when there is none, generate the new key
TokenRefreshGet ==
    /\ pc = "route"
    /\ IsRefresh(req)
    /\ LET existing == getTeamInfo(ParamApiKey(req), TEAM_INFO) IN
       IF ~Truthy(existing)
       THEN /\ resp' = JsonResponse(Obj(<< << <<"error">>, Str(<<"Token not found">>) >> >>), 404)
            /\ pc' = "done"
            /\ loc' = loc
       ELSE LET newApiKey == generateApiKey(req.id) IN
            /\ loc' = [loc EXCEPT !.existing = existing,
                                   !.newApiKey = newApiKey,
                                   !.updatedTeamInfo =
                                       SetProp(Spread(existing), <<"apiKey">>, Str(newApiKey))]
            /\ pc' = "refresh:delete"
            /\ resp' = resp
    /\ UNCHANGED <<TEAM_INFO, req, ctx, stage, outbound, reply, now, rid, env, call, parked>>

\* mutant: the old key is left in the store
TokenRefreshDelete_Keep ==
    /\ pc = "refresh:delete"
    /\ TEAM_INFO' = TEAM_INFO
    /\ pc' = "refresh:put"
    /\ UNCHANGED <<req, ctx, stage, loc, outbound, reply, resp, now, rid, env, call, parked>>

\* await c.env.TEAM_INFO.delete(oldApiKey)
TokenRefreshDelete ==
    /\ pc = "refresh:delete"
    /\ TEAM_INFO' = KvDelete(TEAM_INFO, ParamApiKey(req))
    /\ pc' = "refresh:put"
    /\ UNCHANGED <<req, ctx, stage, loc, outbound, reply, resp, now, rid, env, call, parked>>

\* await c.env.TEAM_INFO.put(newApiKey, ...) and the response
TokenRefreshPut ==
    /\ pc = "refresh:put"
    /\ TEAM_INFO' = KvPut(TEAM_INFO, loc.newApiKey, JSONStringify(loc.updatedTeamInfo))
    /\ resp' = JsonResponse(loc.updatedTeamInfo, 200)
    /\ pc' = "done"
    /\ UNCHANGED <<req, ctx, stage, loc, outbound, reply, now, rid, env, call, parked>>

NextTokens ==
    \/ ArriveTokens
    \/ ApiKeyMw
    \/ ResolveModelMw
    \/ LoggerMw
    \/ AiFetchMw
    \/ CatchAll
    \/ TokenCreate
    \/ TokenGet
    \/ TokenRefreshGet
    \/ TokenRefreshDelete
    \/ TokenRefreshPut

SpecTokens == Init /\ [][NextTokens]_vars

----------------------------------------------------------------------------
Next ==
    \/ Arrive
    \/ Tick
    \/ ApiKeyMw
    \/ ResolveModelMw
    \/ LoggerMw
    \/ AiFetchMw
    \/ EnterChatCompletions
    \/ CatchAll
    \/ ResolveAlias
    \/ TranslateRequest
    \/ SignRequest
    \/ ComposeAuth
    \/ Forward
    \/ RelayReplies
    \/ RelayFails
    \/ HandleReply
    \/ Complete

Spec == Init /\ [][Next]_vars

\* a step of the request being handled: a middleware or the handler runs on
RequestStep ==
    \/ ApiKeyMw
    \/ ResolveModelMw
    \/ LoggerMw
    \/ AiFetchMw
    \/ EnterChatCompletions
    \/ CatchAll
    \/ ResolveAlias
    \/ TranslateRequest
    \/ SignRequest
    \/ ComposeAuth
    \/ Forward
    \/ HandleReply
    \/ Complete

\* the relay settles the outbound call: it answers, or the call fails
RelaySettles == RelayReplies \/ RelayFails

----------------------------------------------------------------------------
(* Two requests in flight.  A handler runs until it awaits; the event loop   *)
(* then resumes the other request.  Everything a handler holds (the request, *)
(* the Hono context, its locals, its pending call) goes with it; the store,  *)
(* the clock and the bindings are the worker's.  The model lets the loop     *)
(* switch after every step, which includes every await.                      *)

\* the request being run, with everything its handler holds
Running ==
    [req |-> req, pc |-> pc, ctx |-> ctx, stage |-> stage, loc |-> loc,
     outbound |-> outbound, reply |-> reply, resp |-> resp]

\* the chat requests sent concurrently: an alias, a full model id with other
\* messages, a model that does not resolve
ConcurrentBodies ==
    { JSONStringify(Obj(<< << <<"model">>, Str(<<"nova-micro">>) >>,
                           << <<"messages">>,
                              Arr(<< Message("user", "What is Cloudflare?") >>) >> >>)),
      JSONStringify(Obj(<< << <<"model">>, Str(<<"amazon", ".", "nova-lite-v1:0">>) >>,
                           << <<"messages">>,
                              Arr(<< Message("system", "Be brief"),
                                     Message("assistant", "ok") >>) >> >>)),
      JSONStringify(Obj(<< << <<"model">>, Str(<<"unknown-model">>) >>,
                           << <<"messages">>,
                              Arr(<< Message("user", "What is Cloudflare?") >>) >> >>)) }

\* a chat-completion request arrives while at most one other is in flight, which
\* is then suspended
ArriveConcurrent ==
    /\ parked = NoParked
    /\ parked' = IF pc = "idle" THEN NoParked ELSE Running
    /\ \E body \in ConcurrentBodies :
          req' = [method |-> "POST", path |-> ChatCompletionsPath,
                  headers |-> HeadersSet(NoHeaders, "Authorization", <<"Bearer ", "sk_1">>),
                  body |-> body]
    /\ rid' = rid + 1
    /\ pc' = "apiKey"
    /\ ctx' = NoContext
    /\ stage' = "None"
    /\ loc' = NoLocals
    /\ outbound' = << >>
    /\ reply' = NoReply
    /\ resp' = NoResponse
    /\ UNCHANGED <<TEAM_INFO, now, env, call>>

\* mutant: the handler's locals are the worker's, not the request's
Switch_SharedLocals ==
    /\ parked # NoParked
    /\ parked' = Running
    /\ req' = parked.req
    /\ pc' = parked.pc
    /\ ctx' = parked.ctx
    /\ stage' = parked.stage
    /\ loc' = loc
    /\ outbound' = parked.outbound
    /\ reply' = parked.reply
    /\ resp' = parked.resp
    /\ UNCHANGED <<TEAM_INFO, now, rid, env, call>>

\* the running request is suspended and the other one resumed
Switch ==
    /\ parked # NoParked
    /\ parked' = Running
    /\ req' = parked.req
    /\ pc' = parked.pc
    /\ ctx' = parked.ctx
    /\ stage' = parked.stage
    /\ loc' = parked.loc
    /\ outbound' = parked.outbound
    /\ reply' = parked.reply
    /\ resp' = parked.resp
    /\ UNCHANGED <<TEAM_INFO, now, rid, env, call>>

\* the replies of the relay to concurrent calls
ConcurrentReplies ==
    { [kind |-> "response", status |-> 200,
       body |-> JSONStringify(Obj(<< << <<"output">>, Obj(<< << <<"message">>, Obj(<< << <<"content">>,
                    Arr(<< TextBlock(<<"hello">>) >>) >> >>) >> >>) >>,
                                     << <<"usage">>, Obj(<< << <<"inputTokens">>, Num(5) >>,
                                                            << <<"outputTokens">>, Num(3) >> >>) >> >>))],
      [kind |-> "response", status |-> 200,
       body |-> JSONStringify(Obj(<< << <<"output">>, Obj(<< << <<"message">>, Obj(<< << <<"content">>,
                    Arr(<< TextBlock(<<"bye">>) >>) >> >>) >> >>) >>,
                                     << <<"usage">>, Obj(<< << <<"inputTokens">>, Num(1) >>,
                                                            << <<"outputTokens">>, Num(2) >> >>) >> >>))],
      [kind |-> "response", status |-> 403,
       body |-> JSONStringify(Obj(<< << <<"message">>, Str(<<"access denied">>) >> >>))] }

\* the relay answers the running request's call
RelayRepliesConcurrent ==
    /\ pc = "handler"
    /\ stage = "Forwarded"
    /\ reply = NoReply
    /\ reply' \in ConcurrentReplies
    /\ UNCHANGED <<TEAM_INFO, req, pc, ctx, stage, loc, outbound, resp, now, rid, env, call, parked>>

NextConcurrent ==
    \/ ArriveConcurrent
    \/ Switch
    \/ Tick
    \/ ApiKeyMw
    \/ ResolveModelMw
    \/ LoggerMw
    \/ AiFetchMw
    \/ EnterChatCompletions
    \/ ResolveAlias
    \/ TranslateRequest
    \/ SignRequest
    \/ ComposeAuth
    \/ Forward
    \/ RelayRepliesConcurrent
    \/ RelayFails
    \/ HandleReply
    \/ Complete

SpecConcurrent == Init /\ [][NextConcurrent]_vars

-----------------------------------------------------------------------------
(* Two token requests in flight: refreshes and lookups of the stored key and *)
(* of a key that is not stored, interleaved at every step.                   *)

\* the token requests sent concurrently
ConcurrentRoutes ==
    { <<"POST", <<"tokens", "sk_1", "refresh">> >>,
      <<"POST", <<"tokens", "sk_unknown", "refresh">> >>,
      <<"GET", <<"tokens", "sk_1">> >> }

\* a token request arrives while at most one other is in flight, which is then
\* suspended; it presents the stored key and an empty JSON object
ArriveTokensConcurrent ==
    /\ parked = NoParked
    /\ parked' = IF pc = "idle" THEN NoParked ELSE Running
    /\ \E route \in ConcurrentRoutes :
          req' = [method |-> route[1], path |-> route[2],
                  headers |-> HeadersSet(NoHeaders, "Authorization", <<"Bearer ", "sk_1">>),
                  body |-> JSONStringify(Obj(<< >>)), id |-> rid + 1]
    /\ rid' = rid + 1
    /\ pc' = "apiKey"
    /\ ctx' = NoContext
    /\ stage' = "None"
    /\ loc' = NoLocals
    /\ outbound' = << >>
    /\ reply' = NoReply
    /\ resp' = NoResponse
    /\ UNCHANGED <<TEAM_INFO, now, env, call>>

NextTokensConcurrent ==
    \/ ArriveTokensConcurrent
    \/ Switch
    \/ ApiKeyMw
    \/ ResolveModelMw
    \/ LoggerMw
    \/ AiFetchMw
    \/ TokenGet
    \/ TokenRefreshGet
    \/ TokenRefreshDelete
    \/ TokenRefreshPut

SpecTokensConcurrent == Init /\ [][NextTokensConcurrent]_vars

-----------------------------------------------------------------------------
(* The pass-through adapters, by the OpenAI router: the body the middleware  *)
(* stored is sent to the relay through the fetch wrapper of aiFetch, and the *)
(* relay's response is returned as it is.  The router has a POST handler     *)
(* only; the requests drawn are POST requests.                               *)

PROVIDER_NAME == "openai"

\* gateway.getUrl(provider): the relay's base URL for the provider
getUrl(bindings, provider) == bindings.AI_GATEWAY_URL \o <<"/", provider>>

\* the request is under app.route("/openai", openaiRouter)
UnderOpenAI(r) == r.path # << >> /\ r.path[1] = PROVIDER_NAME

\* the paths under the OpenAI prefix that clients request
OpenAIPaths == { <<"openai", "chat", "completions">>, <<"openai", "embeddings">> }

\* the headers clients send to the provider routes: those of ClientHeaders, and
\* a request that repeats its key in a header of its own (as SDKs with an
\* x-api-key option do)
ProviderHeaders ==
    ClientHeaders
    \cup { HeadersSet(HeadersSet(NoHeaders, "Authorization", <<"Bearer ", "sk_1">>),
                      "x-api-key", <<"sk_1">>) }

\* a request arrives on a provider route
ArriveProviders ==
    /\ pc \in {"idle", "done"}
    /\ rid < MaxRequests
    /\ \E path \in {ChatCompletionsPath, <<"bedrock", "models">>} \cup OpenAIPaths,
          headers \in ProviderHeaders, body \in ConcurrentBodies :
          req' = [method |-> "POST", path |-> path, headers |-> headers, body |-> body]
    /\ rid' = rid + 1
    /\ pc' = "apiKey"
    /\ ctx' = NoContext
    /\ stage' = "None"
    /\ loc' = NoLocals
    /\ outbound' = << >>
    /\ reply' = NoReply
    /\ resp' = NoResponse
    /\ UNCHANGED <<TEAM_INFO, now, env, call, parked>>

\* openaiRouter.post("*"): c.get("aiFetch")(`${baseUrl}/v1${path}`, {method, body})
\* sends the stored request body with the headers aiFetch prepared
OpenAIForward ==
    /\ pc = "route"
    /\ UnderOpenAI(req)
    /\ req.method = "POST"
    /\ LET baseUrl == getUrl(env, PROVIDER_NAME)
           path == PathString(Tail(req.path))
       IN outbound' = Append(outbound, [url |-> baseUrl \o <<"/v1">> \o path,
                                        method |-> req.method,
                                        headers |-> ctx.aiFetch,
                                        body |-> JSONStringify(ctx.requestBody)])
    /\ pc' = "proxy"
    /\ UNCHANGED <<TEAM_INFO, req, ctx, stage, loc, reply, resp, now, rid, env, call, parked>>

\* the relay answers the pass-through call, or the call fails
ProxyReplies ==
    /\ pc = "proxy"
    /\ reply = NoReply
    /\ \/ \E status \in RelayStatuses, body \in RelayBodies :
             reply' = [kind |-> "response", status |-> status, body |-> body]
       \/ reply' = [kind |-> "failure"]
    /\ UNCHANGED <<TEAM_INFO, req, pc, ctx, stage, loc, outbound, resp, now, rid, env, call, parked>>

\* return proxyResponse: the relay's response is the answer; a rejected fetch
\* is answered by app.onError
OpenAIReturn ==
    /\ pc = "proxy"
    /\ reply # NoReply
    /\ resp' = IF reply.kind = "failure" THEN onError
               ELSE [sent |-> TRUE, status |-> reply.status, kind |-> "proxy",
                     body |-> Str(reply.body)]
    /\ pc' = "done"
    /\ UNCHANGED <<TEAM_INFO, req, ctx, stage, loc, outbound, reply, now, rid, env, call, parked>>

NextProviders ==
    \/ ArriveProviders
    \/ Tick
    \/ ApiKeyMw
    \/ ResolveModelMw
    \/ LoggerMw
    \/ AiFetchMw
    \/ EnterChatCompletions
    \/ CatchAll
    \/ ResolveAlias
    \/ TranslateRequest
    \/ SignRequest
    \/ ComposeAuth
    \/ Forward
    \/ RelayReplies
    \/ RelayFails
    \/ HandleReply
    \/ Complete
    \/ OpenAIForward
    \/ ProxyReplies
    \/ OpenAIReturn

SpecProviders == Init /\ [][NextProviders]_vars


-----------------------------------------------------------------------------
(* Progress of a request.  The runtime runs a handler that can run: its code *)
(* has no loop, and it awaits nothing but the signer's digest and the relay. *)
(* The relay settles every call made to it.                                  *)

\* the headers and bodies of the requests followed to their end: with and
\* without a key; chat requests and a body that is not an object
LiveHeaders == { NoHeaders, HeadersSet(NoHeaders, "Authorization", <<"Bearer ", "sk_1">>) }

LiveBodies == ConcurrentBodies \cup { <<"null">> }

\* a request for a Bedrock path arrives
ArriveLive ==
    /\ pc \in {"idle", "done"}
    /\ rid < MaxRequests
    /\ \E path \in {ChatCompletionsPath, <<"bedrock", "models">>},
          headers \in LiveHeaders, body \in LiveBodies :
          req' = [method |-> "POST", path |-> path, headers |-> headers, body |-> body]
    /\ rid' = rid + 1
    /\ pc' = "apiKey"
    /\ ctx' = NoContext
    /\ stage' = "None"
    /\ loc' = NoLocals
    /\ outbound' = << >>
    /\ reply' = NoReply
    /\ resp' = NoResponse
    /\ UNCHANGED <<TEAM_INFO, now, env, call, parked>>

NextLive ==
    \/ ArriveLive
    \/ Tick
    \/ RequestStep
    \/ RelaySettles

SpecLive == Init /\ [][NextLive]_vars /\ WF_vars(RequestStep) /\ WF_vars(RelaySettles)

-----------------------------------------------------------------------------
(* Provider routes and token routes together, one request at a time: what a *)
(* request leaves behind for the next.                                      *)

\* the requests drawn: chat requests to the Bedrock and OpenAI routes with and
\* without the stored key; creations with and without teamId and without a
\* body; a lookup; refreshes of a stored and of an unknown key
FrameRequests ==
    { [method |-> "POST", path |-> path, headers |-> headers, body |-> body] :
          path \in {ChatCompletionsPath, <<"bedrock", "models">>,
                    <<"openai", "chat", "completions">>},
          headers \in LiveHeaders,
          body \in ConcurrentBodies }
    \cup
    { [method |-> "POST", path |-> <<"tokens">>, headers |-> NoHeaders, body |-> body] :
          body \in { << >>, JSONStringify(Obj(<< >>)),
                     JSONStringify(Obj(<< << <<"teamId">>, Str(<<"team_456">>) >>,
                                          << <<"name">>, Str(<<"Globex">>) >> >>)) } }
    \cup
    { [method |-> route[1], path |-> route[2],
       headers |-> HeadersSet(NoHeaders, "Authorization", <<"Bearer ", "sk_1">>),
       body |-> JSONStringify(Obj(<< >>))] : route \in ConcurrentRoutes }

\* a request arrives on any route
ArriveFrame ==
    /\ pc \in {"idle", "done"}
    /\ rid < MaxRequests
    /\ \E r \in FrameRequests :
          /\ req' = [method |-> r.method, path |-> r.path, headers |-> r.headers,
                     body |-> r.body, id |-> rid + 1]
          /\ pc' = IF Excepted(r.path) THEN "route" ELSE "apiKey"
    /\ rid' = rid + 1
    /\ ctx' = NoContext
    /\ stage' = "None"
    /\ loc' = NoLocals
    /\ outbound' = << >>
    /\ reply' = NoReply
    /\ resp' = NoResponse
    /\ UNCHANGED <<TEAM_INFO, now, env, call, parked>>

NextFrame ==
    \/ ArriveFrame
    \/ RequestStep
    \/ RelaySettles
    \/ OpenAIForward
    \/ ProxyReplies
    \/ OpenAIReturn
    \/ TokenCreate
    \/ TokenGet
    \/ TokenRefreshGet
    \/ TokenRefreshDelete
    \/ TokenRefreshPut

SpecFrame == Init /\ [][NextFrame]_vars

----------------------------------------------------------------------------
(* The pure functions, applied to inputs drawn from bounded sets *)

\* all sequences over S of length at most n
RECURSIVE SeqsUpTo(_, _)
SeqsUpTo(S, n) ==
    IF n = 0 THEN { << >> }
    ELSE LET shorter == SeqsUpTo(S, n - 1) IN
         shorter \cup { Append(q, x) : q \in shorter, x \in S }

\* chunks of the identifiers the resolver is applied to
IdChunks ==
    { "nova-pro", "nova-lite", "nova-micro", "Nova-Micro", "NOVA-PRO", "unknown-model",
      "constructor", "toString", "amazon", "nova-micro-v1:0", "." }

InitResolve ==
    /\ InitWorker
    /\ \E model \in SeqsUpTo(IdChunks, MaxIdLen) :
          call = [fn |-> "resolveModelId", arg |-> Str(model), ret |-> Undefined, done |-> FALSE]

CallResolveModelId ==
    /\ call.fn = "resolveModelId"
    /\ ~call.done
    /\ call' = [call EXCEPT !.ret = resolveModelId(call.arg.s), !.done = TRUE]
    /\ UNCHANGED <<TEAM_INFO, req, pc, ctx, stage, loc, outbound, reply, resp, now, rid, env, parked>>

NextResolve == CallResolveModelId

SpecResolve == InitResolve /\ [][NextResolve]_vars

\* the roles and contents of the messages the translator is applied to
MessageRoles == { "user", "assistant", "system", "tool", "Assistant" }
MessageContents == { "hi", "" }

TranslatorMessages ==
    { Obj(<< << <<"role">>, Str(<<r>>) >>,
             << <<"content">>, Str(IF c = "" THEN << >> ELSE <<c>>) >> >>) :
          r \in MessageRoles, c \in MessageContents }

InitConverse ==
    /\ InitWorker
    /\ \E ms \in SeqsUpTo(TranslatorMessages, MaxMsgs) :
          call = [fn |-> "convertToConverseFormat",
                  arg |-> Obj(<< << <<"model">>, Str(<<"nova-micro">>) >>,
                                 << <<"messages">>, Arr(ms) >> >>),
                  ret |-> Undefined, done |-> FALSE]

CallConvertToConverseFormat ==
    /\ call.fn = "convertToConverseFormat"
    /\ ~call.done
    /\ call' = [call EXCEPT !.ret = convertToConverseFormat(call.arg), !.done = TRUE]
    /\ UNCHANGED <<TEAM_INFO, req, pc, ctx, stage, loc, outbound, reply, resp, now, rid, env, parked>>

NextConverse == CallConvertToConverseFormat

SpecConverse == InitConverse /\ [][NextConverse]_vars

\* an optional property: absent, or present with one of the values
Optional(key, values) == { << >> } \cup { << <<key, v>> >> : v \in values }

\* the numbers a client supplies for max_tokens, temperature and top_p
OptionNumbers == { Num(n) : n \in 0 .. MaxTokens }

\* the values a client supplies for stop
StopValues ==
    { Str(<< >>), Str(<<"END">>), Arr(<< >>), Arr(<< Str(<<"END">>) >>) }

\* chat requests with every combination of the optional fields
InitInference ==
    /\ InitWorker
    /\ \E max_tokens \in Optional(<<"max_tokens">>, OptionNumbers),
          temperature \in Optional(<<"temperature">>, OptionNumbers),
          top_p \in Optional(<<"top_p">>, OptionNumbers),
          stop \in Optional(<<"stop">>, StopValues) :
          call = [fn |-> "convertToConverseFormat",
                  arg |-> Obj(<< << <<"model">>, Str(<<"nova-micro">>) >>,
                                 << <<"messages">>, Arr(<< Message("user", "hi") >>) >> >>
                              \o max_tokens \o temperature \o top_p \o stop),
                  ret |-> Undefined, done |-> FALSE]

SpecInference == InitInference /\ [][NextConverse]_vars

\* the content lists of a provider message
ConverseContents ==
    { Arr(<< >>), Arr(<< Obj(<< >>) >>), Arr(<< TextBlock(<< >>) >>),
      Arr(<< TextBlock(<<"hello">>) >>),
      Arr(<< TextBlock(<<"hello">>), TextBlock(<<"second">>) >>) }

\* the output of a provider response: absent, without message, without content,
\* or with one of the content lists
ConverseOutputs ==
    { << >>,
      << << <<"output">>, Obj(<< >>) >> >>,
      << << <<"output">>, Obj(<< << <<"message">>, Obj(<< >>) >> >>) >> >> }
    \cup { << << <<"output">>,
                 Obj(<< << <<"message">>, Obj(<< << <<"content">>, c >> >>) >> >>) >> >> :
               c \in ConverseContents }

\* the token counts a provider reports
TokenCounts == { Num(n) : n \in 0 .. MaxTokens }

\* the usage of a provider response: absent, or with each count optional
ConverseUsages ==
    { << >> }
    \cup { << << <<"usage">>, Obj(i \o o) >> >> :
               i \in Optional(<<"inputTokens">>, TokenCounts),
               o \in Optional(<<"outputTokens">>, TokenCounts) }

InitOpenAI ==
    /\ InitWorker
    /\ \E output \in ConverseOutputs, usage \in ConverseUsages :
          call = [fn |-> "convertToOpenAIFormat",
                  arg |-> Obj(output \o usage),
                  model |-> Str(<<"nova-micro">>),
                  ret |-> Undefined, done |-> FALSE]

CallConvertToOpenAIFormat ==
    /\ call.fn = "convertToOpenAIFormat"
    /\ ~call.done
    /\ \E uuid \in UUIDs :
          call' = [call EXCEPT !.ret = convertToOpenAIFormat(call.arg, call.model, uuid, now),
                               !.done = TRUE]
    /\ UNCHANGED <<TEAM_INFO, req, pc, ctx, stage, loc, outbound, reply, resp, now, rid, env, parked>>

NextOpenAI == CallConvertToOpenAIFormat

SpecOpenAI == InitOpenAI /\ [][NextOpenAI]_vars

----------------------------------------------------------------------------
(* Claims *)

\* the aliases and ids of the README's table of supported model aliases
DocumentedAliases ==
    { << <<"nova-pro">>,   <<"amazon", ".", "nova-pro-v1:0">> >>,
      << <<"nova-lite">>,  <<"amazon", ".", "nova-lite-v1:0">> >>,
      << <<"nova-micro">>, <<"amazon", ".", "nova-micro-v1:0">> >> }

IsAlias(model) == \E a \in DocumentedAliases : a[1] = model

DocumentedId(model) == (CHOOSE a \in DocumentedAliases : a[1] = model)[2]

\* C3: resolveModelId is exact-match and total over strings: a documented alias
\* gives its documented id, an identifier containing "." is returned unchanged,
\* and every other string (other case, empty, any dot-free name) gives null.
C3_ResolveTotal ==
    (call.fn = "resolveModelId" /\ call.done) =>
        LET model == call.arg.s IN
        call.ret = IF Includes(model, ".") THEN Str(model)
                   ELSE IF IsAlias(model) THEN Str(DocumentedId(model))
                   ELSE NullV

\* C10: convertToConverseFormat maps the messages one-to-one and in order: same
\* number of messages, the i-th content is [{text: i-th input content}], the
\* role is "assistant" for an assistant message and "user" for every other role.
C10_MessagesMapped ==
    (call.fn = "convertToConverseFormat" /\ call.done) =>
        LET input == Get(call.arg, <<"messages">>).elems
            output == Get(call.ret, <<"messages">>)
        IN /\ call.ret.t = "object"
           /\ output.t = "array"
           /\ Len(output.elems) = Len(input)
           /\ \A i \in DOMAIN input :
                 /\ Get(output.elems[i], <<"content">>)
                        = Arr(<< Obj(<< << <<"text">>, Get(input[i], <<"content">>) >> >>) >>)
                 /\ Get(output.elems[i], <<"role">>)
                        = IF Get(input[i], <<"role">>) = Str(<<"assistant">>)
                          THEN Str(<<"assistant">>) ELSE Str(<<"user">>)
                 /\ Get(output.elems[i], <<"role">>) \in {Str(<<"user">>), Str(<<"assistant">>)}

\* C10 witness: a two-message list holding a system message has been converted
C10_Witness ==
    /\ call.fn = "convertToConverseFormat"
    /\ call.done
    /\ Len(Get(call.arg, <<"messages">>).elems) = 2
    /\ Get(Get(call.arg, <<"messages">>).elems[1], <<"role">>) = Str(<<"system">>)
    /\ Get(Get(call.ret, <<"messages">>).elems[1], <<"role">>) = Str(<<"user">>)

\* what the client sent, as the worker parses it
ClientBody == JSONParse(req.body)

ClientModel ==
    IF ClientBody # Throw /\ ClientBody.t = "object" THEN Get(ClientBody, <<"model">>)
    ELSE Undefined

\* the apiKey middleware found the caller's team
Authenticated == ctx.team # NoTeam

\* body is {error: {message, type}} with the given type
IsErrorBody(body, type) ==
    /\ body.t = "object"
    /\ ObjectKeys(body) = << <<"error">> >>
    /\ Get(body, <<"error">>).t = "object"
    /\ ObjectKeys(Get(body, <<"error">>)) = << <<"message">>, <<"type">> >>
    /\ Get(Get(body, <<"error">>), <<"message">>).t = "string"
    /\ Get(Get(body, <<"error">>), <<"type">>) = Str(<<type>>)

ErrorMessageOf(body) == Get(Get(body, <<"error">>), <<"message">>).s

\* the handler resolved the alias
AliasWasResolved == Truthy(loc.modelId)

\* the relay answered the request's call with a success status
RelaySucceeded == reply.kind = "response" /\ Ok(reply.status)

\* the relay answered the request's call with a failure status
RelayRefused == reply.kind = "response" /\ ~Ok(reply.status)

C2_UnknownModel ==
    (Authenticated /\ IsChatCompletion(req) /\ ClientModel.t = "string"
        /\ ~Includes(ClientModel.s, ".") /\ ~HasOwn(MODEL_MAPPING, ClientModel.s)) =>
        /\ outbound = << >>
        /\ pc = "done" =>
              /\ resp.status = 400
              /\ IsErrorBody(resp.body, "invalid_request_error")
              /\ Occurs(ClientModel.s, ErrorMessageOf(resp.body))
              /\ \A a \in DocumentedAliases : Occurs(a[1], ErrorMessageOf(resp.body))

\* C4: an authenticated request under the Bedrock prefix, of any method, that is
\* not POST on the chat-completion path is answered 501 {error:{message,
\* type:"invalid_request_error"}}, the message naming the path, with no outbound
\* call; never 404 or 500.
C4_Unsupported ==
    (pc = "done" /\ Authenticated /\ UnderBedrock(req) /\ ~IsChatCompletion(req)) =>
        /\ resp.status = 501
        /\ IsErrorBody(resp.body, "invalid_request_error")
        /\ Occurs(PathString(req.path), ErrorMessageOf(resp.body))
        /\ outbound = << >>

HasField(text, field) ==
    /\ JSONParse(text) # Throw
    /\ JSONParse(text).t = "object"
    /\ HasOwn(JSONParse(text), field)

FieldOf(text, field) == Get(JSONParse(text), field)

HasNonEmpty(text, field) == HasField(text, field) /\ Truthy(FieldOf(text, field))

C7_OneCall ==
    /\ Len(outbound) <= 1
    /\ (pc = "done" /\ AliasWasResolved) => Len(outbound) = 1

Stages ==
    << "Received", "AliasResolved", "RequestTranslated", "Signed", "AuthComposed",
       "Forwarded", "ResponseTranslated", "Completed" >>

NextStage(a, b) == \E i \in 1 .. (Len(Stages) - 1) : Stages[i] = a /\ Stages[i + 1] = b

\* C8: a chat-completion request moves through Received, AliasResolved,
\* RequestTranslated, Signed, AuthComposed, Forwarded, ResponseTranslated,
\* Completed in that order, one stage at a time and never back; Completed and
\* Error are terminal; the call carries the signature made before it, and the
\* response is translated only once the relay's reply is there.
C8_StageOrder ==
    /\ [][rid' = rid =>
             \/ stage' = stage
             \/ stage = "None" /\ stage' = "Received"
             \/ NextStage(stage, stage')
             \/ stage \notin {"None", "Completed", "Error"} /\ stage' = "Error"]_vars
    /\ [](\A i \in DOMAIN outbound :
             /\ HeadersHas(loc.signedHeaders, "Authorization")
             /\ HeadersHas(outbound[i].headers, "Authorization")
             /\ outbound[i].headers["authorization"] = loc.signedHeaders["authorization"])
    /\ [](stage \in {"ResponseTranslated", "Completed"} \/ loc.openaiResponse # Undefined
             => RelaySucceeded)

\* C8 witness: a request went through every stage
C8_Witness ==
    /\ stage = "Completed"
    /\ Len(outbound) = 1
    /\ resp.status = 200

\* C9: every outbound Bedrock call carries every header the signer produced
\* (the signature Authorization and Content-Type among them) with unchanged
\* values, plus a distinct cf-aig-authorization equal to "Bearer " + relay token.
C9_DualAuth ==
    \A i \in DOMAIN outbound :
        LET headers == outbound[i].headers IN
        /\ {"authorization", "content-type"} \subseteq DOMAIN loc.signedHeaders
        /\ \A n \in DOMAIN loc.signedHeaders :
              n \in DOMAIN headers /\ headers[n] = loc.signedHeaders[n]
        /\ headers["authorization"][1] = "AWS4-HMAC-SHA256 Credential="
        /\ headers["content-type"] = <<"application/json">>
        /\ "cf-aig-authorization" \notin DOMAIN loc.signedHeaders
        /\ "cf-aig-authorization" \in DOMAIN headers
        /\ headers["cf-aig-authorization"] = <<"Bearer ">> \o env.AI_GATEWAY_TOKEN

\* C9 witness: a call has left with both credentials
C9_Witness ==
    /\ outbound # << >>
    /\ HeadersHas(outbound[1].headers, "Authorization")
    /\ HeadersHas(outbound[1].headers, "cf-aig-authorization")

\* the optional fields of a chat request and the inferenceConfig fields they map to
OptionFields ==
    { << <<"max_tokens">>, <<"maxTokens">> >>, << <<"temperature">>, <<"temperature">> >>,
      << <<"top_p">>, <<"topP">> >>, << <<"stop">>, <<"stopSequences">> >> }

\* C11: convertToConverseFormat fills inferenceConfig with exactly the fields the
\* client supplied: each of maxTokens, temperature, topP, stopSequences is present,
\* with the supplied value, iff max_tokens, temperature, top_p, stop was supplied
\* (whatever the value, 0 included); the inferenceConfig key is absent iff none
\* of the four was supplied.
C11_InferenceConfig ==
    (call.fn = "convertToConverseFormat" /\ call.done) =>
        LET inferenceConfig == Get(call.ret, <<"inferenceConfig">>) IN
        /\ HasOwn(call.ret, <<"inferenceConfig">>)
               <=> \E f \in OptionFields : HasOwn(call.arg, f[1])
        /\ HasOwn(call.ret, <<"inferenceConfig">>) =>
               /\ inferenceConfig.t = "object"
               /\ inferenceConfig.props # << >>
        /\ \A f \in OptionFields :
               IF HasOwn(call.arg, f[1])
               THEN /\ HasOwn(call.ret, <<"inferenceConfig">>)
                    /\ HasOwn(inferenceConfig, f[2])
                    /\ Get(inferenceConfig, f[2]) = Get(call.arg, f[1])
               ELSE ~HasOwn(call.ret, <<"inferenceConfig">>) \/ ~HasOwn(inferenceConfig, f[2])

\* the first element of output.message.content of a provider response, when
\* output, message, content and that element are all there
HasFirstContent(converseResponse) ==
    /\ HasOwn(converseResponse, <<"output">>)
    /\ HasOwn(Get(converseResponse, <<"output">>), <<"message">>)
    /\ HasOwn(Get(Get(converseResponse, <<"output">>), <<"message">>), <<"content">>)
    /\ Get(Get(Get(converseResponse, <<"output">>), <<"message">>), <<"content">>).elems # << >>

FirstContent(converseResponse) ==
    Get(Get(Get(converseResponse, <<"output">>), <<"message">>), <<"content">>).elems[1]

\* the content of the only choice of a client response
ChoiceContent(openaiResponse) ==
    Get(Get(Get(openaiResponse, <<"choices">>).elems[1], <<"message">>), <<"content">>)

\* C12: convertToOpenAIFormat returns exactly one choice, with index 0, message
\* role "assistant", finish_reason "stop", and object "chat.completion"; the
\* choice's content is the text of the first element of output.message.content,
\* and the empty string when output, message, content or its first element is
\* absent.
C12_OneChoice ==
    (call.fn = "convertToOpenAIFormat" /\ call.done) =>
        /\ call.ret.t = "object"
        /\ Get(call.ret, <<"object">>) = Str(<<"chat.completion">>)
        /\ Get(call.ret, <<"choices">>).t = "array"
        /\ Len(Get(call.ret, <<"choices">>).elems) = 1
        /\ LET choice == Get(call.ret, <<"choices">>).elems[1] IN
              /\ Get(choice, <<"index">>) = Num(0)
              /\ Get(Get(choice, <<"message">>), <<"role">>) = Str(<<"assistant">>)
              /\ Get(choice, <<"finish_reason">>) = Str(<<"stop">>)
              /\ ObjectKeys(choice) = << <<"index">>, <<"message">>, <<"finish_reason">> >>
        /\ IF HasFirstContent(call.arg)
           THEN HasOwn(FirstContent(call.arg), <<"text">>) =>
                    ChoiceContent(call.ret) = Get(FirstContent(call.arg), <<"text">>)
           ELSE ChoiceContent(call.ret) = Str(<< >>)

\* C12 witness: a response with two content blocks was converted and the choice
\* holds the text of the first
C12_Witness ==
    /\ call.fn = "convertToOpenAIFormat"
    /\ call.done
    /\ HasFirstContent(call.arg)
    /\ Len(Get(Get(Get(call.arg, <<"output">>), <<"message">>), <<"content">>).elems) = 2
    /\ ChoiceContent(call.ret) = Str(<<"hello">>)

\* a token count of the provider's usage, 0 when usage or the count is omitted
ReportedTokens(converseResponse, field) ==
    IF HasOwn(converseResponse, <<"usage">>)
       /\ HasOwn(Get(converseResponse, <<"usage">>), field)
    THEN Get(Get(converseResponse, <<"usage">>), field).n
    ELSE 0

\* C13: in every response of convertToOpenAIFormat, usage.prompt_tokens is the
\* provider's inputTokens (0 when omitted), usage.completion_tokens its
\* outputTokens (0 when omitted), usage.total_tokens their sum; all three are 0
\* when usage is missing.
C13_Usage ==
    (call.fn = "convertToOpenAIFormat" /\ call.done) =>
        LET usage == Get(call.ret, <<"usage">>) IN
        /\ usage.t = "object"
        /\ Get(usage, <<"prompt_tokens">>) = Num(ReportedTokens(call.arg, <<"inputTokens">>))
        /\ Get(usage, <<"completion_tokens">>) = Num(ReportedTokens(call.arg, <<"outputTokens">>))
        /\ Get(usage, <<"total_tokens">>).t = "number"
        /\ Get(usage, <<"total_tokens">>).n
               = Get(usage, <<"prompt_tokens">>).n + Get(usage, <<"completion_tokens">>).n
        /\ ~HasOwn(call.arg, <<"usage">>) =>
               /\ Get(usage, <<"prompt_tokens">>) = Num(0)
               /\ Get(usage, <<"completion_tokens">>) = Num(0)
               /\ Get(usage, <<"total_tokens">>) = Num(0)

\* C13 witness: a response reporting 1 input token and 2 output tokens was
\* converted to a usage with a total of 3
C13_Witness ==
    /\ call.fn = "convertToOpenAIFormat"
    /\ call.done
    /\ ReportedTokens(call.arg, <<"inputTokens">>) = 1
    /\ ReportedTokens(call.arg, <<"outputTokens">>) = 2
    /\ Get(Get(call.ret, <<"usage">>), <<"total_tokens">>) = Num(3)

\* the client's body is malformed: not JSON, without a model string, or without
\* a messages sequence
Malformed(body) ==
    \/ JSONParse(body) = Throw
    \/ JSONParse(body).t # "object"
    \/ Get(JSONParse(body), <<"model">>).t # "string"
    \/ Get(JSONParse(body), <<"messages">>).t # "array"

\* C14: an authenticated chat-completion request with a malformed body (not JSON,
\* no model string, or no messages sequence) is answered with a 400-class status,
\* never a 5xx, and causes no outbound call.
C14_MalformedBody ==
    (Authenticated /\ IsChatCompletion(req) /\ Malformed(req.body)) =>
        /\ outbound = << >>
        /\ pc = "done" => (400 <= resp.status /\ resp.status <= 499)

\* the request carries no usable credential: no Authorization header, one that
\* does not start with "Bearer ", or a key that TEAM_INFO does not store
BadCredential(headers) ==
    \/ ~HeadersHas(headers, "Authorization")
    \/ headers["authorization"] = << >>
    \/ headers["authorization"][1] # "Bearer "
    \/ Tail(headers["authorization"]) \notin DOMAIN TEAM_INFO

\* C15: a request to a provider route whose Authorization header is missing, does
\* not start with "Bearer ", or carries a key not stored in TEAM_INFO is answered
\* 401; no provider handler runs for it and no outbound call is made.
C15_Unauthorized ==
    (pc # "idle" /\ UnderBedrock(req) /\ BadCredential(req.headers)) =>
        /\ pc \in {"apiKey", "done"}
        /\ pc = "done" => resp = TextResponse(<<"Unauthorized">>, 401)
        /\ ~Authenticated
        /\ stage = "None"
        /\ loc = NoLocals
        /\ outbound = << >>

\* C15 witness: a chat-completion request with a key that is not stored was
\* answered 401
C15_Witness ==
    /\ pc = "done"
    /\ IsChatCompletion(req)
    /\ HeadersHas(req.headers, "Authorization")
    /\ req.headers["authorization"] = <<"Bearer ", "sk_unknown">>
    /\ resp.status = 401
    /\ outbound = << >>

\* C16: a chat-completion request that does not complete (alias not resolved,
\* relay reply with a non-success status, outbound call failing without a reply,
\* success reply whose body cannot be parsed) is answered with {error:{message,
\* type}}, type "invalid_request_error" for alias resolution and "api_error" for
\* forwarding, and never with a success status.
C16_StructuredError ==
    /\ (pc = "done" /\ Authenticated /\ IsChatCompletion(req) /\ ClientModel.t = "string"
           /\ ~Truthy(resolveModelId(ClientModel.s))) =>
          /\ ~Ok(resp.status)
          /\ IsErrorBody(resp.body, "invalid_request_error")
    /\ (pc = "done"
           /\ \/ RelayRefused
              \/ reply.kind = "failure"
              \/ RelaySucceeded /\ JSONParse(reply.body) = Throw) =>
          /\ ~Ok(resp.status)
          /\ IsErrorBody(resp.body, "api_error")

V1ChatCompletionsPath == <<"bedrock", "v1", "chat", "completions">>

\* C18: an authenticated POST to /bedrock/v1/chat/completions with a known alias
\* is handled by the chat-completion pipeline (translated, signed, forwarded to
\* the relay), not rejected as unsupported.
C18_V1Path ==
    (pc = "done" /\ Authenticated /\ req.method = "POST" /\ req.path = V1ChatCompletionsPath
        /\ ~Malformed(req.body) /\ IsAlias(ClientModel.s)) =>
        /\ resp.status # 501
        /\ stage # "None"
        /\ Len(outbound) = 1

\* the region of the deployment: AWS_REGION, "us-east-1" when it is unset
ConfiguredRegion == IF env.AWS_REGION = Undefined THEN <<"us-east-1">> ELSE env.AWS_REGION.s

\* the signature of an Authorization header made by the signer
SignatureOf(authorization) ==
    LET i == CHOOSE j \in DOMAIN authorization : authorization[j] = "hmac("
    IN SubSeq(authorization, i, Len(authorization))

\* C20: for every forwarded request what is signed is what is sent: the method is
\* POST in both, the body sent is the string that was signed (the JSON of the
\* translated request), the signed provider URL and the relay URL are built from
\* the same region and the same resolved model id, the region being AWS_REGION
\* or "us-east-1" when it is unset.
C20_SignedIsSent ==
    \A i \in DOMAIN outbound :
        LET sent == outbound[i]
            modelId == StringOf(resolveModelId(ClientModel.s))
            signedUrl == <<"https://bedrock-runtime.">> \o ConfiguredRegion
                             \o <<".amazonaws.com/model/">> \o modelId \o <<"/converse">>
        IN /\ sent.method = "POST"
           /\ sent.body = JSONStringify(convertToConverseFormat(ClientBody))
           /\ sent.url = env.AI_GATEWAY_URL \o <<"/aws-bedrock/bedrock-runtime/">>
                             \o ConfiguredRegion \o <<"/model/">> \o modelId \o <<"/converse">>
           /\ \E t \in 0 .. now :
                  SignatureOf(sent.headers["authorization"])
                      = Signature(env.AWS_SECRET_ACCESS_KEY, "POST", signedUrl, sent.body,
                                  DateString(t))

\* C20 witness: a request for an alias was forwarded by a deployment without
\* AWS_REGION
C20_Witness ==
    /\ outbound # << >>
    /\ env.AWS_REGION = Undefined
    /\ IsAlias(ClientModel.s)
    /\ Occurs(<<"us-east-1", "/model/", "amazon", ".", "nova-micro-v1:0">>, outbound[1].url)

\* the fields of a team's record that a refresh keeps
KeptFields == { <<"teamId">>, <<"name">>, <<"createdAt">>, <<"limited">> }

Requests == {Running} \cup (IF parked = NoParked THEN {} ELSE {parked})

OwnBody(r) == JSONParse(r.req.body)

OwnModel(r) == Get(OwnBody(r), <<"model">>)

\* the call that a request's own body and the configuration determine, when
\* signed at time t
OwnCall(r, t) ==
    LET modelId == StringOf(resolveModelId(OwnModel(r).s))
        body == JSONStringify(convertToConverseFormat(OwnBody(r)))
        signedUrl == <<"https://bedrock-runtime.">> \o ConfiguredRegion
                         \o <<".amazonaws.com/model/">> \o modelId \o <<"/converse">>
        creds == [accessKeyId |-> env.AWS_ACCESS_KEY_ID,
                  secretAccessKey |-> env.AWS_SECRET_ACCESS_KEY,
                  region |-> ConfiguredRegion, service |-> "bedrock"]
    IN [url |-> env.AI_GATEWAY_URL \o <<"/aws-bedrock/bedrock-runtime/">>
                    \o ConfiguredRegion \o <<"/model/">> \o modelId \o <<"/converse">>,
        method |-> "POST",
        headers |-> HeadersSet(
                        Sign(creds, signedUrl, "POST",
                             HeadersSet(NoHeaders, "Content-Type", <<"application/json">>),
                             body, DateString(t)),
                        "cf-aig-authorization", <<"Bearer ">> \o env.AI_GATEWAY_TOKEN),
        body |-> body]

\* the responses that a request's own body, the configuration and the reply to
\* its own call determine (the id and the creation time are drawn per response)
OwnOutcomes(r) ==
    IF ~Truthy(resolveModelId(OwnModel(r).s))
    THEN { JsonResponse(ErrorBody(<<"Unknown model: ">> \o OwnModel(r).s
                                      \o <<". Use a Bedrock model ID or one of: ">>
                                      \o <<"nova-pro", ", ", "nova-lite", ", ", "nova-micro">>,
                                  "invalid_request_error"), 400) }
    ELSE IF r.reply.kind = "failure" THEN { onError }
    ELSE IF r.reply.kind = "none" THEN { }
    ELSE IF ~Ok(r.reply.status)
    THEN { JsonResponse(ErrorBody(<<"Bedrock API error: ">> \o ErrorMessage(r.reply.body),
                                  "api_error"), r.reply.status) }
    ELSE UNION { { JsonResponse(convertToOpenAIFormat(converseResponse, model, uuid, t), 200) :
                       uuid \in UUIDs, t \in 0 .. now } :
                     converseResponse \in { JSONParse(r.reply.body) }, model \in { OwnModel(r) } }

\* C19: whatever the interleaving of two chat-completion requests, each request's
\* call (URL, body, signature) is the one its own body and the configuration
\* determine, signed inside that request, and each request's response (status,
\* model, content, usage, error message) is the one its own body and the reply to
\* its own call determine; requests with different bodies never carry the same
\* body or the same signature.
C19_Independent ==
    /\ \A r \in Requests :
          /\ Len(r.outbound) <= 1
          /\ \A i \in DOMAIN r.outbound :
                \E t \in 0 .. now :
                    /\ HeadersHas(r.outbound[i].headers, "X-Amz-Date")
                    /\ r.outbound[i].headers["x-amz-date"] = DateString(t)
                    /\ r.outbound[i] = OwnCall(r, t)
          /\ r.pc = "done" => r.resp \in OwnOutcomes(r)
    /\ \A r1, r2 \in Requests :
          (r1.req.body # r2.req.body /\ r1.outbound # << >> /\ r2.outbound # << >>) =>
              /\ r1.outbound[1].body # r2.outbound[1].body
              /\ r1.outbound[1].headers["authorization"] # r2.outbound[1].headers["authorization"]

\* C19 witness: a request was handled from arrival to its 200 response while
\* another request, with another body, was awaiting the relay
C19_Witness ==
    /\ parked # NoParked
    /\ parked.stage = "Forwarded"
    /\ parked.outbound # << >>
    /\ parked.reply = NoReply
    /\ stage = "Completed"
    /\ resp.status = 200
    /\ req.body # parked.req.body
    /\ Get(resp.body, <<"model">>) = OwnModel(Running)

\* the keys of the record a creation answers with
TeamInfoKeys == { <<"apiKey">>, <<"teamId">>, <<"name">>, <<"createdAt">>, <<"limited">> }

\* C21: a token creation stores a record iff the request has a teamId: with a
\* teamId it answers 201 with a record {apiKey, teamId, name, createdAt, limited}
\* (limited = false when not supplied) that is stored under the generated key, so
\* that a lookup of the key gives the same record; without a teamId it answers
\* 400 and stores nothing.
C21_Create ==
    (pc = "done" /\ IsCreate(req)) =>
        IF HasField(req.body, <<"teamId">>)
        THEN LET apiKey == generateApiKey(req.id) IN
             /\ resp.status = 201
             /\ resp.body.t = "object"
             /\ { resp.body.props[i][1] : i \in DOMAIN resp.body.props } = TeamInfoKeys
             /\ Get(resp.body, <<"apiKey">>) = Str(apiKey)
             /\ Get(resp.body, <<"teamId">>) = FieldOf(req.body, <<"teamId">>)
             /\ Get(resp.body, <<"limited">>)
                    = IF HasField(req.body, <<"limited">>) THEN FieldOf(req.body, <<"limited">>)
                      ELSE Bool(FALSE)
             /\ apiKey \in DOMAIN TEAM_INFO
             /\ JSONStringify(getTeamInfo(apiKey, TEAM_INFO)) = JSONStringify(resp.body)
        ELSE /\ resp.status = 400
             /\ generateApiKey(req.id) \notin DOMAIN TEAM_INFO

\* the team of the request is limited
LimitedTeam == Authenticated /\ Get(ctx.team, <<"limited">>) = Bool(TRUE)

\* the models a limited team is to be moved away from; the code names none, the
\* largest model of the alias table stands for them
PremiumModels == { Str(<<"nova-pro">>) }

\* C22: the resolveModel middleware stores originalModel and model in the
\* context; for a limited team a requested premium model is mapped to a cheaper
\* one, so that model and the model of the stored requestBody differ from
\* originalModel; for a team that is not limited, model = originalModel.
C22_LimitedOverride ==
    (pc \in {"logger", "aiFetch", "route", "handler"} /\ ~Excepted(req.path)) =>
        /\ ctx.originalModel = ClientModel
        /\ Get(ctx.requestBody, <<"model">>) = ctx.model
        /\ IF LimitedTeam /\ ctx.originalModel \in PremiumModels
           THEN ctx.model # ctx.originalModel
           ELSE ~LimitedTeam => ctx.model = ctx.originalModel

\* C23: every outbound call of an authenticated request on a provider route
\* (pass-through or Bedrock) carries a cf-aig-metadata header whose team_id is
\* the teamId of the team that owns the presented key.
C23_Metadata ==
    \A i \in DOMAIN outbound :
        /\ HeadersHas(outbound[i].headers, "cf-aig-metadata")
        /\ HasField(outbound[i].headers["cf-aig-metadata"], <<"team_id">>)
        /\ FieldOf(outbound[i].headers["cf-aig-metadata"], <<"team_id">>)
               = Get(ctx.team, <<"teamId">>)

\* the key the client presented
PresentedKey == getApiKey(req.headers)

\* the header value is the key, alone or as a bearer credential
CarriesKey(value, key) == value = key \/ value = <<"Bearer ">> \o key

\* the Authorization header of the call is the relay's bearer token on a
\* pass-through route and the provider signature on the Bedrock route
AuthorizationOf(c) ==
    /\ HeadersHas(c.headers, "Authorization")
    /\ IF UnderOpenAI(req)
       THEN c.headers["authorization"] = <<"Bearer ">> \o env.AI_GATEWAY_TOKEN
       ELSE /\ c.headers["authorization"] # << >>
            /\ c.headers["authorization"][1] = "AWS4-HMAC-SHA256 Credential="
            /\ DOMAIN c.headers = DOMAIN loc.signedHeaders \cup {"cf-aig-authorization"}

\* C28 as stated: in every outbound call the Authorization header is the
\* relay's bearer token (pass-through) or the provider signature (Bedrock), and
\* no outbound header has the client's key as its value.
C28_Original ==
    \A i \in DOMAIN outbound :
        /\ AuthorizationOf(outbound[i])
        /\ \A h \in DOMAIN outbound[i].headers :
               ~CarriesKey(outbound[i].headers[h], PresentedKey.s)

\* C28, amended: in every outbound call the Authorization header is the
\* relay's bearer token (pass-through) or the provider signature (Bedrock); an
\* outbound header has the client's key as its value only on a pass-through
\* route and only when it is an inbound header other than Authorization that
\* the client itself set to the key, forwarded unchanged.
C28_KeyNotSent ==
    \A i \in DOMAIN outbound :
        /\ AuthorizationOf(outbound[i])
        /\ \A h \in DOMAIN outbound[i].headers :
               CarriesKey(outbound[i].headers[h], PresentedKey.s) =>
                   /\ UnderOpenAI(req)
                   /\ h # "authorization"
                   /\ h \in DOMAIN req.headers
                   /\ req.headers[h] = outbound[i].headers[h]

\* a pass-through call has left for a client that sent its key as a bearer
\* credential and in a header of its own
C28_Witness ==
    /\ outbound # << >>
    /\ UnderOpenAI(req)
    /\ req.headers["authorization"] = <<"Bearer ", "sk_1">>
    /\ "x-api-key" \in DOMAIN req.headers
    /\ outbound[1].headers["authorization"] = <<"Bearer ">> \o env.AI_GATEWAY_TOKEN
    /\ outbound[1].headers["x-api-key"] = <<"sk_1">>

\* the handler waits for the relay's reply
AwaitingRelay == pc = "handler" /\ stage = "Forwarded" /\ reply = NoReply

\* C24: provided the relay settles every outbound call, an authenticated
\* chat-completion request that the handler received eventually reaches
\* Completed or Error with its response returned, and every authenticated
\* request for the route is eventually answered; the response, once returned,
\* is the only one; and in every stage but the wait for the relay the request
\* can take a step of its own.
C24_Terminates ==
    /\ (Authenticated /\ stage = "Received")
           ~> (pc = "done" /\ stage \in {"Completed", "Error"} /\ resp.sent)
    /\ (Authenticated /\ IsChatCompletion(req) /\ pc \notin {"idle", "done"})
           ~> (pc = "done" /\ resp.sent)
    /\ [][(resp.sent /\ rid' = rid) => resp' = resp]_vars
    /\ []((pc \notin {"idle", "done"} /\ ~AwaitingRelay) => ENABLED <<RequestStep>>_vars)

\* C24 witness: a request that waited for the relay has completed
C24_Witness ==
    /\ Authenticated
    /\ pc = "done"
    /\ stage = "Completed"
    /\ reply # NoReply
    /\ resp.sent

\* a refresh of an existing key is under way or has just ended
Refreshing == IsRefresh(req) /\ Truthy(loc.existing)

\* C27: in every state of a refresh of an existing key K, between its delete
\* and its put included, TEAM_INFO holds the team's record under K or under the
\* new key, so that one of the two authenticates.
C27_RecordKept ==
    (Refreshing /\ pc \in {"refresh:delete", "refresh:put", "done"}) =>
        \E key \in {ParamApiKey(req), loc.newApiKey} :
            /\ getTeamInfo(key, TEAM_INFO) # NoTeam
            /\ Get(getTeamInfo(key, TEAM_INFO), <<"teamId">>) = Get(loc.existing, <<"teamId">>)

\* two requests were made and both have ended
BothEnded == parked # NoParked /\ pc = "done" /\ parked.pc = "done"

\* the stored keys whose record is the team's
KeysOf(teamId) ==
    { k \in DOMAIN TEAM_INFO : Get(getTeamInfo(k, TEAM_INFO), <<"teamId">>) = Str(teamId) }

\* C26: when two concurrent refreshes of the same stored key K have both ended,
\* at most one of them has succeeded and exactly one key of the team is stored.
C26_OneRotation ==
    (/\ BothEnded
     /\ IsRefresh(req) /\ IsRefresh(parked.req)
     /\ ParamApiKey(req) = <<"sk_1">> /\ ParamApiKey(parked.req) = <<"sk_1">>) =>
        /\ ~(resp.status = 200 /\ parked.resp.status = 200)
        /\ Cardinality(KeysOf(<<"team_123">>)) = 1

\* the request is on a provider route
OnProviderRoute(r) == UnderBedrock(r) \/ UnderOpenAI(r)

\* C25: a step of a request on a provider route, whatever its outcome, leaves
\* TEAM_INFO as it was; TEAM_INFO changes only in a step of a create or of a
\* refresh request to /tokens.
C25_Frame ==
    [][/\ (req' = req /\ OnProviderRoute(req)) => TEAM_INFO' = TEAM_INFO
       /\ TEAM_INFO' # TEAM_INFO => (req' = req /\ (IsCreate(req) \/ IsRefresh(req)))]_vars

\* C25 witness: a chat completion has been answered 200 after a creation had
\* added a key, and the store holds the two keys
C25_Witness ==
    /\ pc = "done"
    /\ IsChatCompletion(req)
    /\ resp.status = 200
    /\ DOMAIN TEAM_INFO = { <<"sk_1">>, generateApiKey(1) }

====
